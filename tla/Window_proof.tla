----------------------------- MODULE Window_proof ------------------------------
(***************************************************************************)
(* Theorems about the window of either platform, for every set of keys and *)
(* calls nested and events waiting to any depth: what MCWindow checks.     *)
(* XInv and WInv are inductive; each is proved of the steps of its         *)
(* platform, and the theorems at the end follow from both.                 *)
(***************************************************************************)
EXTENDS MCWindow, Sequences, Functions, SequenceTheorems, TLAPS

-------------------------------------------------------------------------------
(* Sequences                                                               *)

LEMMA RangeOfPush ==
  ASSUME NEW S, NEW s \in Seq(S), NEW e \in S
  PROVE  /\ Append(s, e) \in Seq(S) /\ Append(s, e) # <<>>
         /\ Len(Append(s, e)) = Len(s) + 1 /\ Append(s, e)[Len(s) + 1] = e
         /\ Range(Append(s, e)) = Range(s) \cup {e}
  <1>1. Append(s, e) \in Seq(S) /\ Len(Append(s, e)) = Len(s) + 1
    BY AppendProperties
  <1>2. Append(s, e)[Len(s) + 1] = e /\ \A i \in 1 .. Len(s) : Append(s, e)[i] = s[i]
    BY AppendProperties
  <1>3. DOMAIN s = 1 .. Len(s) /\ DOMAIN Append(s, e) = 1 .. Len(s) + 1 /\ Len(s) \in Nat
    BY <1>1, LenProperties
  <1>4. Range(Append(s, e)) = Range(s) \cup {e}
    <2>1. 1 .. Len(s) + 1 = (1 .. Len(s)) \cup {Len(s) + 1}
      BY <1>3
    <2> QED
      BY <2>1, <1>2, <1>3 DEF Range
  <1>5. Append(s, e) # <<>>
    BY <1>1, <1>3, EmptySeq
  <1>6. Append(s, e)[Len(s) + 1] = e
    BY <1>2
  <1> QED
    BY <1>1, <1>4, <1>5, <1>6

LEMMA RangeOfCut ==
  ASSUME NEW S, NEW s \in Seq(S), NEW d \in 0 .. Len(s)
  PROVE  /\ SubSeq(s, 1, d) \in Seq(S) /\ Len(SubSeq(s, 1, d)) = d
         /\ \A i \in 1 .. d : SubSeq(s, 1, d)[i] = s[i]
         /\ Range(SubSeq(s, 1, d)) \subseteq Range(s)
         /\ \A f \in Range(s) : f \in Range(SubSeq(s, 1, d)) \/ \E i \in d + 1 .. Len(s) : s[i] = f
  <1>1. Len(s) \in Nat /\ DOMAIN s = 1 .. Len(s)
    BY LenProperties
  <1>2. \A i \in 1 .. d : s[i] \in S
    BY <1>1, ElementOfSeq
  <1>3. SubSeq(s, 1, d) \in Seq(S) /\ Len(SubSeq(s, 1, d)) = d /\ \A i \in 1 .. d : SubSeq(s, 1, d)[i] = s[i]
    BY <1>1, <1>2, SubSeqProperties
  <1>4. DOMAIN SubSeq(s, 1, d) = 1 .. d
    BY <1>3, LenProperties
  <1>5. Range(SubSeq(s, 1, d)) \subseteq Range(s)
    BY <1>1, <1>3, <1>4 DEF Range
  <1>6. ASSUME NEW f \in Range(s)
        PROVE  f \in Range(SubSeq(s, 1, d)) \/ \E i \in d + 1 .. Len(s) : s[i] = f
    <2>1. PICK i \in 1 .. Len(s) : s[i] = f
      BY <1>1 DEF Range
    <2>2. CASE i \in 1 .. d
      BY <2>1, <2>2, <1>3, <1>4 DEF Range
    <2>3. CASE i \notin 1 .. d
      BY <2>1, <2>3, <1>1
    <2> QED
      BY <2>2, <2>3
  <1> QED
    BY <1>3, <1>5, <1>6

LEMMA RangeOfPop ==
  ASSUME NEW S, NEW s \in Seq(S), s # <<>>
  PROVE  /\ SubSeq(s, 1, Len(s) - 1) \in Seq(S) /\ Len(SubSeq(s, 1, Len(s) - 1)) = Len(s) - 1
         /\ \A i \in 1 .. Len(s) - 1 : SubSeq(s, 1, Len(s) - 1)[i] = s[i]
         /\ s[Len(s)] \in S
         /\ Range(s) = Range(SubSeq(s, 1, Len(s) - 1)) \cup {s[Len(s)]}
  <1>1. Len(s) \in Nat \ {0} /\ DOMAIN s = 1 .. Len(s) /\ Len(s) \in DOMAIN s
    BY LenProperties, EmptySeq
  <1>2. s[Len(s)] \in S /\ s[Len(s)] \in Range(s)
    BY <1>1, ElementOfSeq DEF Range
  <1>3. Len(s) - 1 \in 0 .. Len(s)
    BY <1>1
  <1>4. \A f \in Range(s) : f \in Range(SubSeq(s, 1, Len(s) - 1)) \/ f = s[Len(s)]
    <2>1. (Len(s) - 1) + 1 .. Len(s) = {Len(s)}
      BY <1>1
    <2> QED
      BY <1>3, <2>1, RangeOfCut
  <1> DEFINE p == SubSeq(s, 1, Len(s) - 1)
  <1>5. p \in Seq(S) /\ Len(p) = Len(s) - 1 /\ Range(p) \subseteq Range(s)
    BY <1>3, RangeOfCut
  <1>6. \A i \in 1 .. Len(s) - 1 : p[i] = s[i]
    BY <1>3, RangeOfCut
  <1>7. Range(s) = Range(p) \cup {s[Len(s)]}
    BY <1>2, <1>4, <1>5
  <1> HIDE DEF p
  <1>8. p \in Seq(S) /\ Len(p) = Len(s) - 1 /\ (\A i \in 1 .. Len(s) - 1 : p[i] = s[i])
          /\ s[Len(s)] \in S /\ Range(s) = Range(p) \cup {s[Len(s)]}
    BY <1>2, <1>5, <1>6, <1>7
  <1> QED
    BY <1>8 DEF p

\* The platforms' modules and this one mean the same by Range.
LEMMA SameRange == \A s : X!Range(s) = Range(s) /\ W!Range(s) = Range(s)
  BY DEF X!Range, W!Range, Range

-------------------------------------------------------------------------------
(* X11: what is always true                                                *)

\* No callback about the state is under way.
XQuiet == \A s \in X!WindowStates : ~X!Inside(X!StateTold(s))

\* Where the last event for a key, and the calls under way, leave the key.
XKeysInv ==
  \A k \in Keys :
    /\ last[k] = "press" =>
         /\ ~X!Inside(X!UpTold(k))
         /\ keys[k] \in {"Triggered", "Ongoing"}
         /\ keys[k] = "Triggered" => X!Inside(X!DownTold(k))
    /\ last[k] = "release" =>
         /\ keys[k] \in {"Suppressed", "Inactive"}
         /\ keys[k] = "Suppressed" => X!Inside(X!UpTold(k))

\* The mode of the display, with no callback about the state under way and with one.
XModeInv ==
  excuse = "none" =>
    /\ ~flag => mode = "desktop"
    /\ XQuiet => (mode = "full" <=> flag /\ state = "Focused")

\* No event of these types waits; the last of those that wait is of type t.
XNoneOf(q, types) == \A i \in DOMAIN q : q[i].type \notin types
XEndsWith(q, types, t) ==
  \E i \in DOMAIN q : q[i].type = t /\ \A j \in DOMAIN q : j > i => q[j].type \notin types

XFocusTypes == {"FocusIn", "FocusOut", "UnmapNotify"}
XMapTypes == {"FocusIn", "UnmapNotify", "MapNotify"}

XWillFocus(q) ==
  XEndsWith(q, XFocusTypes, "FocusIn") \/ (XNoneOf(q, XFocusTypes) /\ state = "Focused")
XWillHide(q) ==
  XEndsWith(q, XMapTypes, "UnmapNotify") \/ (XNoneOf(q, XMapTypes) /\ state = "Hidden")

\* What the program will know of the window when it has read all events; until an event
\* has told it anything, or is on its way, the window is not in focus.
XEventsInv ==
  open => IF seen \/ ~XNoneOf(queue, XFocusTypes)
          THEN (XWillFocus(queue) <=> focused) /\ (XWillHide(queue) <=> ~mapped)
          ELSE ~focused

\* Until then the state is the one of the constructor.
XStartInv == ~seen => state = "Focused" /\ XQuiet

\* A fullscreen window that the program knows to be out of focus will be an icon: the
\* window manager is asked to, or has done it and the event waits.
XLingerInv ==
  open /\ alive /\ flag /\ excuse = "none" /\ XQuiet /\ state = "Visible" =>
    iconify \/ ~XNoneOf(queue, {"UnmapNotify"})

XInv == X!TypeOK /\ XKeysInv /\ XModeInv /\ XEventsInv /\ XStartInv /\ XLingerInv

-------------------------------------------------------------------------------
(* Events that wait                                                        *)

LEMMA XOneMore ==
  ASSUME NEW q \in Seq(X!Events), NEW e \in X!Events, NEW types, NEW t \in types
  PROVE  /\ q \o <<e>> \in Seq(X!Events)
         /\ XNoneOf(q \o <<e>>, types) <=> XNoneOf(q, types) /\ e.type \notin types
         /\ XEndsWith(q \o <<e>>, types, t) <=>
              IF e.type \in types THEN e.type = t ELSE XEndsWith(q, types, t)
  <1> DEFINE p == q \o <<e>>
  <1>1. <<e>> \in Seq(X!Events) /\ Len(<<e>>) = 1 /\ <<e>>[1] = e
    OBVIOUS
  <1>2. p \in Seq(X!Events) /\ Len(p) = Len(q) + 1 /\ Len(q) \in Nat
    BY <1>1, ConcatProperties, LenProperties
  <1>3. \A i \in 1 .. Len(q) : p[i] = q[i]
    BY <1>1, <1>2, ConcatProperties
  <1>4. p[Len(q) + 1] = e
    BY <1>1, <1>2, ConcatProperties
  <1>5. DOMAIN q = 1 .. Len(q) /\ DOMAIN p = 1 .. Len(q) + 1
    BY <1>2, LenProperties
  <1>6. 1 .. Len(q) + 1 = (1 .. Len(q)) \cup {Len(q) + 1} /\ \A i \in 1 .. Len(q) : Len(q) + 1 > i /\ ~(i > Len(q) + 1)
    BY <1>2
  <1>7. ~(Len(q) + 1 > Len(q) + 1)
    BY <1>2
  <1> HIDE DEF p
  <1>8. XNoneOf(p, types) <=> XNoneOf(q, types) /\ e.type \notin types
    BY <1>3, <1>4, <1>5, <1>6 DEF XNoneOf
  <1>9. CASE e.type \in types
    <2>1. XEndsWith(p, types, t) => e.type = t
      BY <1>9, <1>3, <1>4, <1>5, <1>6 DEF XEndsWith
    <2>2. e.type = t => XEndsWith(p, types, t)
      BY <1>4, <1>5, <1>6, <1>7 DEF XEndsWith
    <2> QED
      BY <1>2, <1>8, <1>9, <2>1, <2>2 DEF p
  <1>10. CASE e.type \notin types
    <2>1. XEndsWith(p, types, t) => XEndsWith(q, types, t)
      BY <1>10, <1>3, <1>4, <1>5, <1>6 DEF XEndsWith
    <2>2. XEndsWith(q, types, t) => XEndsWith(p, types, t)
      BY <1>10, <1>3, <1>4, <1>5, <1>6 DEF XEndsWith
    <2> QED
      BY <1>2, <1>8, <1>10, <2>1, <2>2 DEF p
  <1> QED
    BY <1>9, <1>10

LEMMA XTwoMore ==
  ASSUME NEW q \in Seq(X!Events), NEW e \in X!Events, NEW f \in X!Events
  PROVE  q \o <<e, f>> = (q \o <<e>>) \o <<f>>
  <1>1. <<e>> \in Seq(X!Events) /\ <<f>> \in Seq(X!Events) /\ <<e, f>> \in Seq(X!Events)
    OBVIOUS
  <1>2. Len(<<e>>) = 1 /\ Len(<<f>>) = 1 /\ Len(<<e, f>>) = 2
    OBVIOUS
  <1>3. <<e>>[1] = e /\ <<f>>[1] = f /\ <<e, f>>[1] = e /\ <<e, f>>[2] = f
    OBVIOUS
  <1> DEFINE p == <<e>> \o <<f>>
  <1>4. p \in Seq(X!Events) /\ Len(p) = 2
    BY <1>1, <1>2, ConcatProperties
  <1>5. p[1] = e
    BY <1>1, <1>2, <1>3, ConcatProperties
  <1>6. p[2] = f
    BY <1>1, <1>2, <1>3, ConcatProperties
  <1> HIDE DEF p
  <1>7. \A i \in 1 .. 2 : p[i] = <<e, f>>[i]
    BY <1>3, <1>5, <1>6
  <1>8. p = <<e, f>>
    BY <1>1, <1>2, <1>4, <1>7, SeqEqual
  <1>9. q \o p = (q \o <<e>>) \o <<f>>
    BY <1>1, ConcatAssociative DEF p
  <1> QED
    BY <1>8, <1>9

LEMMA XOneLess ==
  ASSUME NEW q \in Seq(X!Events), q # <<>>, NEW types, NEW t \in types
  PROVE  /\ Tail(q) \in Seq(X!Events) /\ Head(q) \in X!Events
         /\ XNoneOf(q, types) <=> XNoneOf(Tail(q), types) /\ Head(q).type \notin types
         /\ XEndsWith(q, types, t) <=>
              XEndsWith(Tail(q), types, t) \/ (XNoneOf(Tail(q), types) /\ Head(q).type = t)
  <1>1. Tail(q) \in Seq(X!Events) /\ Head(q) \in X!Events /\ Head(q) = q[1]
    BY HeadTailProperties
  <1>2. Len(Tail(q)) = Len(q) - 1 /\ \A i \in 1 .. Len(Tail(q)) : Tail(q)[i] = q[i + 1]
    BY HeadTailProperties
  <1>3. Len(q) \in Nat \ {0} /\ DOMAIN q = 1 .. Len(q) /\ DOMAIN Tail(q) = 1 .. Len(q) - 1
    BY <1>1, <1>2, LenProperties, EmptySeq
  <1>4. \A i \in DOMAIN q : i = 1 \/ (i - 1 \in DOMAIN Tail(q) /\ Tail(q)[i - 1] = q[i])
    BY <1>2, <1>3
  <1>5. \A i \in DOMAIN Tail(q) : i + 1 \in DOMAIN q /\ Tail(q)[i] = q[i + 1] /\ i + 1 > 1
    BY <1>2, <1>3
  <1>6. 1 \in DOMAIN q
    BY <1>3
  <1>7. XNoneOf(q, types) <=> XNoneOf(Tail(q), types) /\ Head(q).type \notin types
    BY <1>1, <1>4, <1>5, <1>6 DEF XNoneOf
  <1>8. XEndsWith(q, types, t) => XEndsWith(Tail(q), types, t) \/ (XNoneOf(Tail(q), types) /\ Head(q).type = t)
    <2> SUFFICES ASSUME NEW i \in DOMAIN q, q[i].type = t, \A j \in DOMAIN q : j > i => q[j].type \notin types
                 PROVE  XEndsWith(Tail(q), types, t) \/ (XNoneOf(Tail(q), types) /\ Head(q).type = t)
      BY DEF XEndsWith
    <2>1. CASE i = 1
      BY <2>1, <1>1, <1>5 DEF XNoneOf
    <2>2. CASE i # 1
      <3>1. \A j \in DOMAIN Tail(q) : j > i - 1 => Tail(q)[j].type \notin types
        <4> TAKE j \in DOMAIN Tail(q)
        <4>1. j > i - 1 => j + 1 > i
          BY <1>3
        <4> QED
          BY <4>1, <1>5
      <3> QED
        BY <2>2, <3>1, <1>4 DEF XEndsWith
    <2> QED
      BY <2>1, <2>2
  <1>9. XEndsWith(Tail(q), types, t) => XEndsWith(q, types, t)
    <2> SUFFICES ASSUME NEW i \in DOMAIN Tail(q), Tail(q)[i].type = t,
                        \A j \in DOMAIN Tail(q) : j > i => Tail(q)[j].type \notin types
                 PROVE  XEndsWith(q, types, t)
      BY DEF XEndsWith
    <2>1. \A j \in DOMAIN q : j > i + 1 => q[j].type \notin types
      <3> TAKE j \in DOMAIN q
      <3>1. j > i + 1 => j # 1 /\ j - 1 > i
        BY <1>3
      <3> QED
        BY <3>1, <1>4
    <2> QED
      BY <2>1, <1>5 DEF XEndsWith
  <1>10. XNoneOf(Tail(q), types) /\ Head(q).type = t => XEndsWith(q, types, t)
    <2> SUFFICES ASSUME XNoneOf(Tail(q), types), Head(q).type = t
                 PROVE  XEndsWith(q, types, t)
      OBVIOUS
    <2>1. \A j \in DOMAIN q : j # 1 => q[j].type \notin types
      BY <1>4 DEF XNoneOf
    <2>2. \A j \in DOMAIN q : j > 1 => j # 1
      BY <1>3
    <2> QED
      BY <2>1, <2>2, <1>1, <1>6 DEF XEndsWith
  <1> QED
    BY <1>1, <1>7, <1>8, <1>9, <1>10

LEMMA XSending ==
  ASSUME NEW q \in Seq(X!Events), NEW e \in X!Events
  PROVE  /\ q \o <<e>> \in Seq(X!Events)
         /\ XNoneOf(q \o <<e>>, XFocusTypes) <=> XNoneOf(q, XFocusTypes) /\ e.type \notin XFocusTypes
         /\ XWillFocus(q \o <<e>>) <=>
              IF e.type \in XFocusTypes THEN e.type = "FocusIn" ELSE XWillFocus(q)
         /\ XWillHide(q \o <<e>>) <=>
              IF e.type \in XMapTypes THEN e.type = "UnmapNotify" ELSE XWillHide(q)
         /\ XNoneOf(q \o <<e>>, {"UnmapNotify"}) <=>
              XNoneOf(q, {"UnmapNotify"}) /\ e.type # "UnmapNotify"
  <1> DEFINE p == q \o <<e>>
  <1>1. "FocusIn" \in XFocusTypes /\ "UnmapNotify" \in XMapTypes /\ "UnmapNotify" \in {"UnmapNotify"}
    BY DEF XFocusTypes, XMapTypes
  <1>2. p \in Seq(X!Events)
    BY XOneMore
  <1>3. /\ XNoneOf(p, XFocusTypes) <=> XNoneOf(q, XFocusTypes) /\ e.type \notin XFocusTypes
        /\ XEndsWith(p, XFocusTypes, "FocusIn") <=>
             IF e.type \in XFocusTypes THEN e.type = "FocusIn" ELSE XEndsWith(q, XFocusTypes, "FocusIn")
    BY <1>1, XOneMore
  <1>4. /\ XNoneOf(p, XMapTypes) <=> XNoneOf(q, XMapTypes) /\ e.type \notin XMapTypes
        /\ XEndsWith(p, XMapTypes, "UnmapNotify") <=>
             IF e.type \in XMapTypes THEN e.type = "UnmapNotify" ELSE XEndsWith(q, XMapTypes, "UnmapNotify")
    BY <1>1, XOneMore
  <1>5. XNoneOf(p, {"UnmapNotify"}) <=> XNoneOf(q, {"UnmapNotify"}) /\ e.type # "UnmapNotify"
    BY <1>1, XOneMore
  <1> HIDE DEF p
  <1>6. XWillFocus(p) <=> IF e.type \in XFocusTypes THEN e.type = "FocusIn" ELSE XWillFocus(q)
    BY <1>3 DEF XWillFocus
  <1>7. XWillHide(p) <=> IF e.type \in XMapTypes THEN e.type = "UnmapNotify" ELSE XWillHide(q)
    BY <1>4 DEF XWillHide
  <1> QED
    BY <1>2, <1>3, <1>5, <1>6, <1>7 DEF p

\* What is expected of the events that wait when the first of them is read: the same of
\* the others, from the state the event leaves.
LEMMA XReading ==
  ASSUME X!TypeOK, queue # <<>>, queue' = Tail(queue), state' \in X!WindowStates
  PROVE  /\ queue' \in Seq(X!Events) /\ Head(queue) \in X!Events
         /\ XNoneOf(queue, XFocusTypes) <=> XNoneOf(queue', XFocusTypes) /\ Head(queue).type \notin XFocusTypes
         /\ XNoneOf(queue, {"UnmapNotify"}) <=>
              XNoneOf(queue', {"UnmapNotify"}) /\ Head(queue).type # "UnmapNotify"
         /\ (state' = "Focused" <=>
               IF Head(queue).type \in XFocusTypes THEN Head(queue).type = "FocusIn" ELSE state = "Focused")
              => (XWillFocus(queue)' <=> XWillFocus(queue))
         /\ (state' = "Hidden" <=>
               IF Head(queue).type \in XMapTypes THEN Head(queue).type = "UnmapNotify" ELSE state = "Hidden")
              => (XWillHide(queue)' <=> XWillHide(queue))
  <1>1. "FocusIn" \in XFocusTypes /\ "UnmapNotify" \in XMapTypes /\ "UnmapNotify" \in {"UnmapNotify"}
    BY DEF XFocusTypes, XMapTypes
  <1>2. queue \in Seq(X!Events)
    BY DEF X!TypeOK
  <1>3. queue' \in Seq(X!Events) /\ Head(queue) \in X!Events
    BY <1>1, <1>2, XOneLess
  <1>4. /\ XNoneOf(queue, XFocusTypes) <=> XNoneOf(queue', XFocusTypes) /\ Head(queue).type \notin XFocusTypes
        /\ XEndsWith(queue, XFocusTypes, "FocusIn") <=>
             XEndsWith(queue', XFocusTypes, "FocusIn") \/ (XNoneOf(queue', XFocusTypes) /\ Head(queue).type = "FocusIn")
    BY <1>1, <1>2, XOneLess
  <1>5. /\ XNoneOf(queue, XMapTypes) <=> XNoneOf(queue', XMapTypes) /\ Head(queue).type \notin XMapTypes
        /\ XEndsWith(queue, XMapTypes, "UnmapNotify") <=>
             XEndsWith(queue', XMapTypes, "UnmapNotify") \/ (XNoneOf(queue', XMapTypes) /\ Head(queue).type = "UnmapNotify")
    BY <1>1, <1>2, XOneLess
  <1>6. XNoneOf(queue, {"UnmapNotify"}) <=> XNoneOf(queue', {"UnmapNotify"}) /\ Head(queue).type # "UnmapNotify"
    BY <1>1, <1>2, XOneLess
  <1>7. XWillFocus(queue)' <=> XEndsWith(queue', XFocusTypes, "FocusIn") \/ (XNoneOf(queue', XFocusTypes) /\ state' = "Focused")
    BY DEF XWillFocus
  <1>8. XWillHide(queue)' <=> XEndsWith(queue', XMapTypes, "UnmapNotify") \/ (XNoneOf(queue', XMapTypes) /\ state' = "Hidden")
    BY DEF XWillHide
  <1>9. (state' = "Focused" <=>
           IF Head(queue).type \in XFocusTypes THEN Head(queue).type = "FocusIn" ELSE state = "Focused")
          => (XWillFocus(queue)' <=> XWillFocus(queue))
    BY <1>1, <1>4, <1>7 DEF XWillFocus
  <1>10. (state' = "Hidden" <=>
           IF Head(queue).type \in XMapTypes THEN Head(queue).type = "UnmapNotify" ELSE state = "Hidden")
          => (XWillHide(queue)' <=> XWillHide(queue))
    BY <1>1, <1>5, <1>8 DEF XWillHide
  <1> QED
    BY <1>3, <1>4, <1>6, <1>9, <1>10

-------------------------------------------------------------------------------
(* The calls under way                                                     *)

LEMMA XFrameFacts ==
  /\ X!Poll \in X!Frames /\ X!Told \in X!Frames
  /\ \A s \in X!WindowStates : X!StateTold(s) \in X!Frames /\ X!StateTold(s) # X!Poll /\ X!StateTold(s) # X!Told
  /\ \A k \in Keys :
       /\ X!DownTold(k) \in X!Frames /\ X!UpTold(k) \in X!Frames
       /\ X!DownTold(k) \notin {X!Poll, X!Told} /\ X!UpTold(k) \notin {X!Poll, X!Told}
       /\ \A j \in Keys : X!DownTold(k) # X!UpTold(j) /\ (k # j => X!DownTold(k) # X!DownTold(j) /\ X!UpTold(k) # X!UpTold(j))
       /\ \A s \in X!WindowStates : X!StateTold(s) # X!DownTold(k) /\ X!StateTold(s) # X!UpTold(k)
  BY DEF X!Frames, X!Poll, X!Told, X!StateTold, X!DownTold, X!UpTold

LEMMA XPushing ==
  ASSUME X!TypeOK, NEW f \in X!Frames, stack' = X!Push(f)
  PROVE  stack' \in Seq(X!Frames) /\ \A g : X!Inside(g)' <=> X!Inside(g) \/ g = f
  BY RangeOfPush, SameRange DEF X!TypeOK, X!Push, X!Inside

LEMMA XPopping ==
  ASSUME X!TypeOK, stack # <<>>
  PROVE  /\ X!Pop \in Seq(X!Frames) /\ X!Top \in X!Frames
         /\ \A g : X!Inside(g) <=> g \in X!Range(X!Pop) \/ g = X!Top
  BY RangeOfPop, SameRange DEF X!TypeOK, X!Pop, X!Top, X!Depth, X!Inside

LEMMA XUnwinding ==
  ASSUME X!TypeOK, NEW d \in 0 .. X!Depth, X!Unwind(d)
  PROVE  /\ stack' \in Seq(X!Frames)
         /\ \A g : X!Inside(g)' => X!Inside(g)
         /\ last' \in [Keys -> {"none", "press", "release", "overtaken", "lost"}]
         /\ \A k \in Keys : last'[k] # "lost" =>
              /\ last'[k] = last[k]
              /\ X!Inside(X!DownTold(k))' <=> X!Inside(X!DownTold(k))
              /\ X!Inside(X!UpTold(k))' <=> X!Inside(X!UpTold(k))
  <1>1. stack \in Seq(X!Frames) /\ stack' = SubSeq(stack, 1, d) /\ d \in 0 .. Len(stack)
    BY DEF X!TypeOK, X!Unwind, X!Depth
  <1>2. stack' \in Seq(X!Frames) /\ X!Range(stack') \subseteq X!Range(stack)
    BY <1>1, RangeOfCut, SameRange
  <1>3. \A f \in X!Range(stack) : f \in X!Range(stack') \/ \E i \in d + 1 .. Len(stack) : stack[i] = f
    BY <1>1, RangeOfCut, SameRange
  <1>4. last' \in [Keys -> {"none", "press", "release", "overtaken", "lost"}]
    BY DEF X!Unwind, X!TypeOK
  <1>5. ASSUME NEW k \in Keys, last'[k] # "lost"
        PROVE  /\ last'[k] = last[k]
               /\ \A f \in {X!DownTold(k), X!UpTold(k)} : f \in X!Range(stack) => f \in X!Range(stack')
    <2>1. last'[k] = last[k] /\ ~\E i \in d + 1 .. X!Depth : stack[i] \in {X!DownTold(k), X!UpTold(k)}
      BY <1>5 DEF X!Unwind
    <2> QED
      BY <1>3, <2>1 DEF X!Depth
  <1> QED
    BY <1>2, <1>4, <1>5 DEF X!Inside

-------------------------------------------------------------------------------
(* The steps of the server and the window manager                          *)

LEMMA XInitInv ==
  ASSUME X!Init
  PROVE  XInv
  <1>1. X!TypeOK
    <2>1. stack \in Seq(X!Frames) /\ queue \in Seq(X!Events)
      BY DEF X!Init
    <2>2. keys \in [Keys -> X!KeyStates] /\ last \in [Keys -> {"none", "press", "release", "overtaken", "lost"}]
      BY DEF X!Init, X!KeyStates
    <2> QED
      BY <2>1, <2>2 DEF X!Init, X!TypeOK, X!WindowStates
  <1>2. \A g : ~X!Inside(g)
    BY DEF X!Init, X!Inside, X!Range
  <1>3. \A types : XNoneOf(queue, types)
    BY DEF X!Init, XNoneOf
  <1>4. XKeysInv
    BY DEF XKeysInv, X!Init
  <1>5. XQuiet
    BY <1>2 DEF XQuiet
  <1> QED
    BY <1>1, <1>3, <1>4, <1>5 DEF XInv, XModeInv, XEventsInv, XStartInv, XLingerInv, X!Init

\* What the program itself has does not change, nor what it has been told.
LEMMA XElsewhere ==
  ASSUME XInv, UNCHANGED <<X!program, X!history, mode>>, {mapped', focused', iconify'} \subseteq BOOLEAN,
         queue' \in Seq(X!Events), focused' => mapped', XEventsInv',
         open /\ state = "Visible" /\ XNoneOf(queue', {"UnmapNotify"}) =>
           iconify' \/ (XNoneOf(queue, {"UnmapNotify"}) /\ ~iconify)
  PROVE  XInv'
  <1> USE DEF XInv, X!program, X!history
  <1>1. X!TypeOK'
    BY DEF X!TypeOK
  <1>2. \A g : X!Inside(g)' <=> X!Inside(g)
    BY DEF X!Inside
  <1>3. XKeysInv'
    BY <1>2 DEF XKeysInv
  <1>4. XQuiet' <=> XQuiet
    BY <1>2 DEF XQuiet
  <1>5. XModeInv'
    BY <1>4 DEF XModeInv
  <1>6. XLingerInv' /\ XStartInv'
    BY <1>4 DEF XLingerInv, XStartInv
  <1> QED
    BY <1>1, <1>3, <1>5, <1>6

LEMMA XEventFacts ==
  /\ \A type \in X!WindowEvents : X!Event(type) \in X!Events /\ X!Event(type).type = type
  /\ \A type \in X!KeyEvents, k \in Keys :
       [type |-> type, key |-> k] \in X!Events /\ [type |-> type, key |-> k].type = type
  /\ X!WindowEvents = {"FocusIn", "FocusOut", "UnmapNotify", "MapNotify", "ClientMessage"}
  /\ X!KeyEvents = {"KeyPress", "KeyRelease"}
  BY DEF X!Events, X!Event, X!WindowEvents, X!KeyEvents

\* One event more, which tells what has changed.
LEMMA XOneEvent ==
  ASSUME X!TypeOK, XEventsInv, open, UNCHANGED <<open, state, seen>>,
         NEW e \in X!Events, queue' = queue \o <<e>>,
         IF e.type \in XFocusTypes THEN focused' = (e.type = "FocusIn") ELSE focused' = focused,
         IF e.type \in XMapTypes THEN mapped' = (e.type # "UnmapNotify") ELSE mapped' = mapped,
         e.type = "FocusOut" => focused
  PROVE  /\ XEventsInv' /\ queue' \in Seq(X!Events)
         /\ XNoneOf(queue', {"UnmapNotify"}) <=> XNoneOf(queue, {"UnmapNotify"}) /\ e.type # "UnmapNotify"
  <1>1. queue \in Seq(X!Events)
    BY DEF X!TypeOK
  <1>2. /\ queue' \in Seq(X!Events)
        /\ XNoneOf(queue', XFocusTypes) <=> XNoneOf(queue, XFocusTypes) /\ e.type \notin XFocusTypes
        /\ XWillFocus(queue') <=> IF e.type \in XFocusTypes THEN e.type = "FocusIn" ELSE XWillFocus(queue)
        /\ XWillHide(queue') <=> IF e.type \in XMapTypes THEN e.type = "UnmapNotify" ELSE XWillHide(queue)
        /\ XNoneOf(queue', {"UnmapNotify"}) <=> XNoneOf(queue, {"UnmapNotify"}) /\ e.type # "UnmapNotify"
    BY <1>1, XSending
  <1>3. (XWillFocus(queue)' <=> XWillFocus(queue')) /\ (XWillHide(queue)' <=> XWillHide(queue'))
    BY DEF XWillFocus, XWillHide
  <1>4. e.type \in XFocusTypes /\ e.type \notin XMapTypes => e.type = "FocusOut"
    BY DEF XFocusTypes, XMapTypes
  <1>5. CASE e.type \notin XFocusTypes
    BY <1>2, <1>3, <1>5 DEF XEventsInv
  <1>6. CASE e.type \in XFocusTypes
    BY <1>2, <1>3, <1>4, <1>6 DEF XEventsInv
  <1> QED
    BY <1>2, <1>5, <1>6

LEMMA XMapInv ==
  ASSUME XInv, X!Map
  PROVE  XInv'
  <1> DEFINE e == X!Event("MapNotify")
  <1>1. e \in X!Events /\ e.type = "MapNotify"
    BY XEventFacts
  <1>2. XEventsInv' /\ queue' \in Seq(X!Events)
          /\ (XNoneOf(queue', {"UnmapNotify"}) <=> XNoneOf(queue, {"UnmapNotify"}) /\ e.type # "UnmapNotify")
    <2>1. queue' = queue \o <<e>> /\ X!TypeOK /\ XEventsInv /\ open /\ UNCHANGED <<open, state, seen>>
      BY DEF X!Map, X!Send, X!Room, XInv, X!program, X!history
    <2>2. IF e.type \in XFocusTypes THEN focused' = (e.type = "FocusIn") ELSE focused' = focused
      BY <1>1 DEF X!Map, XFocusTypes
    <2>3. IF e.type \in XMapTypes THEN mapped' = (e.type # "UnmapNotify") ELSE mapped' = mapped
      BY <1>1 DEF X!Map, XMapTypes, XInv, X!TypeOK
    <2>4. e.type = "FocusOut" => focused
      BY <1>1 DEF X!Map
    <2> HIDE DEF e
    <2> QED
      BY <1>1, <2>1, <2>2, <2>3, <2>4, XOneEvent
  <1>3. {mapped', focused', iconify'} \subseteq BOOLEAN /\ (focused' => mapped') /\ UNCHANGED <<mode, iconify>>
    BY DEF X!Map, XInv, X!TypeOK
  <1> QED
    BY <1>1, <1>2, <1>3, XElsewhere DEF X!Map

LEMMA XGiveFocusInv ==
  ASSUME XInv, X!GiveFocus
  PROVE  XInv'
  <1> DEFINE e == X!Event("FocusIn")
  <1>1. e \in X!Events /\ e.type = "FocusIn"
    BY XEventFacts
  <1>2. XEventsInv' /\ queue' \in Seq(X!Events)
          /\ (XNoneOf(queue', {"UnmapNotify"}) <=> XNoneOf(queue, {"UnmapNotify"}) /\ e.type # "UnmapNotify")
    <2>1. queue' = queue \o <<e>> /\ X!TypeOK /\ XEventsInv /\ open /\ UNCHANGED <<open, state, seen>>
      BY DEF X!GiveFocus, X!Send, X!Room, XInv, X!program, X!history
    <2>2. IF e.type \in XFocusTypes THEN focused' = (e.type = "FocusIn") ELSE focused' = focused
      BY <1>1 DEF X!GiveFocus, XFocusTypes
    <2>3. IF e.type \in XMapTypes THEN mapped' = (e.type # "UnmapNotify") ELSE mapped' = mapped
      BY <1>1 DEF X!GiveFocus, XMapTypes, XInv, X!TypeOK
    <2>4. e.type = "FocusOut" => focused
      BY <1>1 DEF X!GiveFocus
    <2> HIDE DEF e
    <2> QED
      BY <1>1, <2>1, <2>2, <2>3, <2>4, XOneEvent
  <1>3. {mapped', focused', iconify'} \subseteq BOOLEAN /\ (focused' => mapped') /\ UNCHANGED <<mode, iconify>>
    BY DEF X!GiveFocus, XInv, X!TypeOK
  <1> QED
    BY <1>1, <1>2, <1>3, XElsewhere DEF X!GiveFocus

LEMMA XTakeFocusInv ==
  ASSUME XInv, X!TakeFocus
  PROVE  XInv'
  <1> DEFINE e == X!Event("FocusOut")
  <1>1. e \in X!Events /\ e.type = "FocusOut"
    BY XEventFacts
  <1>2. XEventsInv' /\ queue' \in Seq(X!Events)
          /\ (XNoneOf(queue', {"UnmapNotify"}) <=> XNoneOf(queue, {"UnmapNotify"}) /\ e.type # "UnmapNotify")
    <2>1. queue' = queue \o <<e>> /\ X!TypeOK /\ XEventsInv /\ open /\ UNCHANGED <<open, state, seen>>
      BY DEF X!TakeFocus, X!Send, X!Room, XInv, X!program, X!history
    <2>2. IF e.type \in XFocusTypes THEN focused' = (e.type = "FocusIn") ELSE focused' = focused
      BY <1>1 DEF X!TakeFocus, XFocusTypes
    <2>3. IF e.type \in XMapTypes THEN mapped' = (e.type # "UnmapNotify") ELSE mapped' = mapped
      BY <1>1 DEF X!TakeFocus, XMapTypes, XInv, X!TypeOK
    <2>4. e.type = "FocusOut" => focused
      BY <1>1 DEF X!TakeFocus
    <2> HIDE DEF e
    <2> QED
      BY <1>1, <2>1, <2>2, <2>3, <2>4, XOneEvent
  <1>3. {mapped', focused', iconify'} \subseteq BOOLEAN /\ (focused' => mapped') /\ UNCHANGED <<mode, iconify>>
    BY DEF X!TakeFocus, XInv, X!TypeOK
  <1> QED
    BY <1>1, <1>2, <1>3, XElsewhere DEF X!TakeFocus

LEMMA XAskToCloseInv ==
  ASSUME XInv, X!AskToClose
  PROVE  XInv'
  <1> DEFINE e == X!Event("ClientMessage")
  <1>1. e \in X!Events /\ e.type = "ClientMessage"
    BY XEventFacts
  <1>2. XEventsInv' /\ queue' \in Seq(X!Events)
          /\ (XNoneOf(queue', {"UnmapNotify"}) <=> XNoneOf(queue, {"UnmapNotify"}) /\ e.type # "UnmapNotify")
    <2>1. queue' = queue \o <<e>> /\ X!TypeOK /\ XEventsInv /\ open /\ UNCHANGED <<open, state, seen>>
      BY DEF X!AskToClose, X!Send, X!Room, XInv, X!program, X!history
    <2>2. IF e.type \in XFocusTypes THEN focused' = (e.type = "FocusIn") ELSE focused' = focused
      BY <1>1 DEF X!AskToClose, XFocusTypes
    <2>3. IF e.type \in XMapTypes THEN mapped' = (e.type # "UnmapNotify") ELSE mapped' = mapped
      BY <1>1 DEF X!AskToClose, XMapTypes, XInv, X!TypeOK
    <2>4. e.type = "FocusOut" => focused
      BY <1>1 DEF X!AskToClose
    <2> HIDE DEF e
    <2> QED
      BY <1>1, <2>1, <2>2, <2>3, <2>4, XOneEvent
  <1>3. {mapped', focused', iconify'} \subseteq BOOLEAN /\ (focused' => mapped') /\ UNCHANGED <<mode, iconify>>
    BY DEF X!AskToClose, XInv, X!TypeOK
  <1> QED
    BY <1>1, <1>2, <1>3, XElsewhere DEF X!AskToClose

LEMMA XUseKeyInv ==
  ASSUME XInv, NEW type \in X!KeyEvents, NEW k \in Keys, X!UseKey(type, k)
  PROVE  XInv'
  <1> DEFINE e == [type |-> type, key |-> k]
  <1>1. e \in X!Events /\ e.type = type
    BY XEventFacts
  <1>2. XEventsInv' /\ queue' \in Seq(X!Events)
          /\ (XNoneOf(queue', {"UnmapNotify"}) <=> XNoneOf(queue, {"UnmapNotify"}) /\ e.type # "UnmapNotify")
    <2>1. queue' = queue \o <<e>> /\ X!TypeOK /\ XEventsInv /\ open /\ UNCHANGED <<open, state, seen>>
      BY DEF X!UseKey, X!Send, X!Room, XInv, X!program, X!history
    <2>2. IF e.type \in XFocusTypes THEN focused' = (e.type = "FocusIn") ELSE focused' = focused
      BY <1>1, XEventFacts DEF X!UseKey, XFocusTypes
    <2>3. IF e.type \in XMapTypes THEN mapped' = (e.type # "UnmapNotify") ELSE mapped' = mapped
      BY <1>1, XEventFacts DEF X!UseKey, XMapTypes, XInv, X!TypeOK
    <2>4. e.type = "FocusOut" => focused
      BY <1>1 DEF X!UseKey
    <2> HIDE DEF e
    <2> QED
      BY <1>1, <2>1, <2>2, <2>3, <2>4, XOneEvent
  <1>3. {mapped', focused', iconify'} \subseteq BOOLEAN /\ (focused' => mapped') /\ UNCHANGED <<mode, iconify>>
    BY DEF X!UseKey, XInv, X!TypeOK
  <1> QED
    BY <1>1, <1>2, <1>3, XEventFacts, XElsewhere DEF X!UseKey

LEMMA XIconifyInv ==
  ASSUME XInv, X!Iconify
  PROVE  XInv'
  <1> DEFINE u == X!Event("UnmapNotify")
             f == X!Event("FocusOut")
  <1>1. u \in X!Events /\ f \in X!Events /\ u.type = "UnmapNotify" /\ f.type = "FocusOut"
    BY XEventFacts
  <1>2. X!TypeOK /\ XEventsInv /\ XStartInv /\ queue \in Seq(X!Events) /\ (focused => mapped) /\ open
          /\ focused \in BOOLEAN /\ mapped \in BOOLEAN
    BY DEF XInv, X!TypeOK, X!Iconify
  <1>3. UNCHANGED <<X!program, X!history, mode, open, state, seen>> /\ mapped' = FALSE /\ focused' = FALSE /\ iconify' = FALSE
    BY DEF X!Iconify, X!program, X!history
  <1>4. "FocusOut" \in XFocusTypes /\ "UnmapNotify" \in XFocusTypes /\ "FocusOut" \notin XMapTypes
          /\ "UnmapNotify" \in XMapTypes /\ "UnmapNotify" # "FocusIn" /\ "FocusOut" # "FocusIn"
    BY DEF XFocusTypes, XMapTypes
  <1> HIDE DEF u, f
  <1>5. CASE ~mapped /\ UNCHANGED queue
    <2>1. UNCHANGED focused
      BY <1>2, <1>3, <1>5
    <2>2. XEventsInv'
      BY <1>2, <1>3, <1>5, <2>1 DEF XEventsInv, XWillFocus, XWillHide
    <2>3. state = "Visible" => ~XNoneOf(queue', {"UnmapNotify"})
      <3>1. state = "Visible" => XWillHide(queue)
        BY <1>2, <1>5 DEF XEventsInv, XStartInv
      <3>2. XEndsWith(queue, XMapTypes, "UnmapNotify") => ~XNoneOf(queue, {"UnmapNotify"})
        BY DEF XEndsWith, XNoneOf
      <3> QED
        BY <1>5, <3>1, <3>2 DEF XWillHide
    <2> QED
      BY <1>2, <1>3, <1>5, <2>2, <2>3, XElsewhere
  <1>6. ASSUME mapped,
               \/ ~focused /\ queue' = queue \o <<u>>
               \/ focused /\ queue' = (queue \o <<f>>) \o <<u>>
               \/ focused /\ queue' = (queue \o <<u>>) \o <<f>>
        PROVE  XInv'
    <2>1. /\ queue' \in Seq(X!Events) /\ ~XNoneOf(queue', XFocusTypes) /\ ~XNoneOf(queue', {"UnmapNotify"})
          /\ ~XWillFocus(queue') /\ XWillHide(queue')
      <3>1. CASE queue' = queue \o <<u>>
        BY <1>1, <1>2, <1>4, <3>1, XSending
      <3>2. CASE queue' = (queue \o <<f>>) \o <<u>>
        <4> DEFINE q == queue \o <<f>>
        <4>1. q \in Seq(X!Events)
          BY <1>1, <1>2, XSending
        <4>2. queue' = q \o <<u>>
          BY <3>2
        <4> HIDE DEF q
        <4> QED
          BY <1>1, <1>4, <4>1, <4>2, XSending
      <3>3. CASE queue' = (queue \o <<u>>) \o <<f>>
        <4> DEFINE q == queue \o <<u>>
        <4>1. q \in Seq(X!Events) /\ XWillHide(q) /\ ~XNoneOf(q, XFocusTypes) /\ ~XNoneOf(q, {"UnmapNotify"})
          BY <1>1, <1>2, <1>4, XSending
        <4>2. queue' = q \o <<f>>
          BY <3>3
        <4> HIDE DEF q
        <4> QED
          BY <1>1, <1>4, <4>1, <4>2, XSending
      <3> QED
        BY <1>6, <3>1, <3>2, <3>3
    <2>2. (XWillFocus(queue)' <=> XWillFocus(queue')) /\ (XWillHide(queue)' <=> XWillHide(queue'))
      BY <1>3 DEF XWillFocus, XWillHide
    <2>3. XEventsInv'
      BY <1>3, <2>1, <2>2 DEF XEventsInv
    <2> QED
      BY <1>2, <1>3, <2>1, <2>3, XElsewhere
  <1>7. \/ ~mapped /\ UNCHANGED queue
        \/ mapped /\ ~focused /\ queue' = queue \o <<u>>
        \/ focused /\ queue' = queue \o <<f, u>>
        \/ focused /\ queue' = queue \o <<u, f>>
    BY DEF X!Iconify, X!Send, u, f
  <1>8. queue \o <<f, u>> = (queue \o <<f>>) \o <<u>> /\ queue \o <<u, f>> = (queue \o <<u>>) \o <<f>>
    BY <1>1, <1>2, XTwoMore
  <1> QED
    BY <1>2, <1>5, <1>6, <1>7, <1>8

LEMMA XServerInv ==
  ASSUME XInv, X!Server
  PROVE  XInv'
  BY XMapInv, XGiveFocusInv, XTakeFocusInv, XIconifyInv, XAskToCloseInv, XUseKeyInv DEF X!Server

-------------------------------------------------------------------------------
(* The steps of the program                                                *)

\* A step that handles no key leaves the keys where they are.
LEMMA XKeysKept ==
  ASSUME XKeysInv, UNCHANGED keys,
         \A k \in Keys : last'[k] # "lost" =>
           /\ last'[k] = last[k]
           /\ X!Inside(X!DownTold(k))' <=> X!Inside(X!DownTold(k))
           /\ X!Inside(X!UpTold(k))' <=> X!Inside(X!UpTold(k))
  PROVE  XKeysInv'
  <1> SUFFICES ASSUME NEW k \in Keys
               PROVE  /\ last'[k] = "press" =>
                           /\ ~X!Inside(X!UpTold(k))'
                           /\ keys[k] \in {"Triggered", "Ongoing"}
                           /\ keys[k] = "Triggered" => X!Inside(X!DownTold(k))'
                      /\ last'[k] = "release" =>
                           /\ keys[k] \in {"Suppressed", "Inactive"}
                           /\ keys[k] = "Suppressed" => X!Inside(X!UpTold(k))'
    BY DEF XKeysInv, X!Inside
  <1>1. CASE last'[k] = "lost"
    BY <1>1
  <1>2. CASE last'[k] # "lost"
    BY <1>2 DEF XKeysInv
  <1> QED
    BY <1>1, <1>2

\* A step in which neither the window nor the mode of the display changes.
LEMMA XWindowKept ==
  ASSUME XModeInv, XStartInv, XLingerInv, XQuiet' <=> XQuiet,
         UNCHANGED <<state, flag, open, alive, mode, iconify, excuse, seen>>,
         XNoneOf(queue', {"UnmapNotify"}) => XNoneOf(queue, {"UnmapNotify"})
  PROVE  XModeInv' /\ XStartInv' /\ XLingerInv'
  BY DEF XModeInv, XStartInv, XLingerInv

\* A call is made or returns that is neither about a key nor about the state.
LEMMA XCallsOnly ==
  ASSUME XInv, UNCHANGED <<state, flag, keys, open, alive, X!screen, X!history>>,
         stack' \in Seq(X!Frames),
         \A k \in Keys : /\ X!Inside(X!DownTold(k))' <=> X!Inside(X!DownTold(k))
                         /\ X!Inside(X!UpTold(k))' <=> X!Inside(X!UpTold(k)),
         \A s \in X!WindowStates : X!Inside(X!StateTold(s))' <=> X!Inside(X!StateTold(s))
  PROVE  XInv'
  <1> USE DEF XInv, X!screen, X!history
  <1>1. X!TypeOK'
    BY DEF X!TypeOK
  <1>2. XKeysInv'
    BY XKeysKept
  <1>3. XQuiet' <=> XQuiet
    BY DEF XQuiet
  <1>4. XModeInv' /\ XStartInv' /\ XLingerInv'
    BY <1>3, XWindowKept
  <1>5. XEventsInv'
    BY DEF XEventsInv, XWillFocus, XWillHide
  <1> QED
    BY <1>1, <1>2, <1>4, <1>5

LEMMA XThrowInv ==
  ASSUME XInv, NEW deepest \in 0 .. X!Depth, X!Throw(deepest), UNCHANGED <<state, keys, open, seen>>,
         flag' \in BOOLEAN
  PROVE  XInv'
  <1> USE DEF XInv, X!screen
  <1>1. X!Catchers(deepest) \subseteq 0 .. X!Depth
    <2>1. X!Depth \in Nat
      BY LenProperties DEF X!TypeOK, X!Depth
    <2> QED
      BY <2>1 DEF X!Catchers
  <1>2. PICK d \in 0 .. X!Depth : X!Unwind(d)
    BY <1>1 DEF X!Throw
  <1>3. UNCHANGED <<alive, mapped, focused, mode, iconify, queue>> /\ excuse' = "failed"
    BY DEF X!Throw
  <1>4. stack' \in Seq(X!Frames) /\ last' \in [Keys -> {"none", "press", "release", "overtaken", "lost"}]
    BY <1>2, XUnwinding
  <1>5. X!TypeOK'
    BY <1>3, <1>4 DEF X!TypeOK
  <1>6. XKeysInv'
    BY <1>2, XUnwinding, XKeysKept
  <1>7. XQuiet => XQuiet'
    BY <1>2, XUnwinding DEF XQuiet
  <1>8. XModeInv' /\ XLingerInv' /\ XStartInv'
    BY <1>3, <1>7 DEF XModeInv, XLingerInv, XStartInv
  <1>9. XEventsInv'
    BY <1>3 DEF XEventsInv, XWillFocus, XWillHide
  <1> QED
    BY <1>5, <1>6, <1>8, <1>9

LEMMA XSetFlagInv ==
  ASSUME XInv, NEW enabled \in BOOLEAN, X!SetFlag(enabled)
  PROVE  XInv'
  <1> USE DEF XInv
  <1>1. UNCHANGED <<state, keys, open, seen>> /\ flag' = enabled
    BY DEF X!SetFlag
  <1>2. CASE X!Throw(X!Depth)
    <2>1. X!Depth \in 0 .. X!Depth
      BY LenProperties DEF X!TypeOK, X!Depth
    <2> QED
      BY <1>1, <1>2, <2>1, XThrowInv
  <1>3. ASSUME mode' = IF enabled THEN "full" ELSE "desktop",
               excuse' = IF enabled /\ state # "Focused" THEN "forced" ELSE "none",
               UNCHANGED <<stack, last, alive, mapped, focused, iconify, queue>>
        PROVE  XInv'
    <2>1. X!TypeOK'
      BY <1>1, <1>3 DEF X!TypeOK
    <2>2. \A g : X!Inside(g)' <=> X!Inside(g)
      BY <1>3 DEF X!Inside
    <2>3. XKeysInv'
      BY <1>1, <1>3, <2>2, XKeysKept
    <2>4. XQuiet' <=> XQuiet
      BY <2>2 DEF XQuiet
    <2>5. XModeInv'
      BY <1>1, <1>3 DEF XModeInv
    <2>6. XLingerInv' /\ XStartInv'
      BY <1>1, <1>3, <2>4 DEF XLingerInv, XStartInv
    <2>7. XEventsInv'
      BY <1>1, <1>3 DEF XEventsInv, XWillFocus, XWillHide
    <2> QED
      BY <2>1, <2>3, <2>5, <2>6, <2>7
  <1> QED
    BY <1>2, <1>3 DEF X!SetFlag, X!HandleFlagUpdate, X!HandleWindowFullscreen, X!HandleWindowRestore

LEMMA XCloseInv ==
  ASSUME XInv, X!Close
  PROVE  XInv'
  <1> USE DEF XInv, X!Close, X!history
  <1>1. X!TypeOK'
    BY DEF X!TypeOK
  <1>2. \A g : X!Inside(g)' <=> X!Inside(g)
    BY DEF X!Inside
  <1>3. XKeysInv'
    BY <1>2, XKeysKept
  <1>4. XQuiet' <=> XQuiet
    BY <1>2 DEF XQuiet
  <1> QED
    BY <1>1, <1>3, <1>4 DEF XModeInv, XEventsInv, XStartInv, XLingerInv

LEMMA XPollEventsInv ==
  ASSUME XInv, X!PollEvents
  PROVE  XInv'
  BY XFrameFacts, XPushing, XCallsOnly DEF X!PollEvents, XInv

LEMMA XPollReturnsInv ==
  ASSUME XInv, X!PollReturns
  PROVE  XInv'
  <1>1. X!TypeOK /\ stack # <<>> /\ X!Top = X!Poll /\ stack' = X!Pop
           /\ UNCHANGED <<state, flag, keys, open, alive, X!screen, X!history>>
    BY DEF X!PollReturns, XInv
  <1>2. stack' \in Seq(X!Frames) /\ \A g : X!Inside(g) <=> X!Inside(g)' \/ g = X!Poll
    BY <1>1, XPopping DEF X!Inside
  <1> QED
    BY <1>1, <1>2, XFrameFacts, XCallsOnly

LEMMA XDropInv ==
  ASSUME XInv, X!Drop
  PROVE  XInv'
  <1>1. X!TypeOK /\ queue # <<>> /\ queue' = Tail(queue) /\ ~open
          /\ UNCHANGED <<X!program, X!history, mapped, focused, mode, iconify>>
    BY DEF X!Drop, X!Reads, XInv
  <1>2. queue' \in Seq(X!Events)
    BY <1>1, HeadTailProperties DEF X!TypeOK
  <1>3. XEventsInv'
    BY <1>1 DEF XEventsInv, X!program
  <1> QED
    BY <1>1, <1>2, <1>3, XElsewhere DEF X!TypeOK

LEMMA XHandleWindowEventInv ==
  ASSUME XInv, X!HandleWindowEvent
  PROVE  XInv'
  <1> USE DEF XInv
  <1> DEFINE e == Head(queue)
  <1>1. PICK new \in X!WindowStates :
          /\ X!UpdateState(new)
          /\ \/ e.type = "FocusIn" /\ new = "Focused" /\ seen' = TRUE
             \/ e.type = "FocusOut" /\ new = (IF state = "Hidden" THEN "Hidden" ELSE "Visible") /\ seen' = TRUE
             \/ e.type = "UnmapNotify" /\ new = "Hidden" /\ seen' = TRUE
             \/ e.type = "MapNotify" /\ new = (IF state = "Focused" THEN "Focused" ELSE "Visible") /\ UNCHANGED seen
    BY DEF X!HandleWindowEvent, X!Reads, X!WindowStates
  <1>2. /\ X!TypeOK /\ queue # <<>> /\ queue' = Tail(queue) /\ open
        /\ UNCHANGED <<flag, keys, open, alive, mapped, focused, mode, iconify, last, excuse>>
    BY DEF X!HandleWindowEvent, X!Reads
  <1>3. state' = new /\ state \in X!WindowStates
    BY <1>1 DEF X!UpdateState, X!TypeOK
  <1> HIDE DEF e
  <1>4. /\ queue' \in Seq(X!Events)
        /\ XNoneOf(queue, XFocusTypes) <=> XNoneOf(queue', XFocusTypes) /\ e.type \notin XFocusTypes
        /\ XNoneOf(queue, {"UnmapNotify"}) <=> XNoneOf(queue', {"UnmapNotify"}) /\ e.type # "UnmapNotify"
    BY <1>2, <1>3, XReading DEF e
  <1>5. XWillFocus(queue)' <=> XWillFocus(queue)
    <2>1. state' = "Focused" <=> IF e.type \in XFocusTypes THEN e.type = "FocusIn" ELSE state = "Focused"
      BY <1>1, <1>3 DEF XFocusTypes
    <2> QED
      BY <1>2, <1>3, <2>1, XReading DEF e
  <1>6. XWillHide(queue)' <=> XWillHide(queue)
    <2>1. state' = "Hidden" <=> IF e.type \in XMapTypes THEN e.type = "UnmapNotify" ELSE state = "Hidden"
      BY <1>1, <1>3 DEF XMapTypes, X!WindowStates
    <2> QED
      BY <1>2, <1>3, <2>1, XReading DEF e
  <1>7. e.type \in XFocusTypes => seen' = TRUE
    BY <1>1 DEF XFocusTypes
  <1>8. e.type \notin XFocusTypes => UNCHANGED seen /\ e.type = "MapNotify"
    BY <1>1 DEF XFocusTypes
  <1>9. XEventsInv'
    BY <1>2, <1>4, <1>5, <1>6, <1>7, <1>8 DEF XEventsInv
  <1>10. CASE state = new
    <2>1. UNCHANGED <<state, stack>>
      BY <1>1, <1>3, <1>10 DEF X!UpdateState
    <2>2. \A g : X!Inside(g)' <=> X!Inside(g)
      BY <2>1 DEF X!Inside
    <2>3. seen' \in BOOLEAN
      BY <1>1 DEF X!TypeOK
    <2>4. X!TypeOK'
      BY <1>2, <1>4, <2>1, <2>3 DEF X!TypeOK
    <2>5. XKeysInv'
      BY <1>2, <2>2, XKeysKept
    <2>6. XQuiet' <=> XQuiet
      BY <2>2 DEF XQuiet
    <2>7. XNoneOf(queue', {"UnmapNotify"}) /\ state = "Visible" => XNoneOf(queue, {"UnmapNotify"})
      BY <1>1, <1>4, <1>10
    <2>8. XModeInv' /\ XLingerInv'
      BY <1>2, <2>1, <2>6, <2>7 DEF XModeInv, XLingerInv
    <2>9. XStartInv'
      BY <1>1, <2>1, <2>6 DEF XStartInv
    <2> QED
      BY <1>9, <2>4, <2>5, <2>8, <2>9
  <1>11. CASE state # new
    <2>1. stack' = X!Push(X!StateTold(new)) /\ X!StateTold(new) \in X!Frames
      BY <1>1, <1>11, XFrameFacts DEF X!UpdateState
    <2>2. stack' \in Seq(X!Frames) /\ \A g : X!Inside(g)' <=> X!Inside(g) \/ g = X!StateTold(new)
      BY <1>2, <2>1, XPushing
    <2>3. seen' \in BOOLEAN
      BY <1>1 DEF X!TypeOK
    <2>4. X!TypeOK'
      BY <1>2, <1>3, <1>4, <2>2, <2>3 DEF X!TypeOK
    <2>5. XKeysInv'
      BY <1>2, <2>2, XFrameFacts, XKeysKept
    <2>6. ~XQuiet'
      BY <2>2 DEF XQuiet
    <2>7. XModeInv' /\ XLingerInv'
      BY <1>2, <2>6 DEF XModeInv, XLingerInv
    <2>8. XStartInv'
      BY <1>1, <1>3, <1>11 DEF XStartInv
    <2> QED
      BY <1>9, <2>4, <2>5, <2>7, <2>8
  <1> QED
    BY <1>10, <1>11

\* An event that is about the window neither way is read.
LEMMA XReadsOther ==
  ASSUME XInv, queue # <<>>, queue' = Tail(queue), UNCHANGED <<state, open, mapped, focused, seen>>,
         Head(queue).type \notin XFocusTypes \cup XMapTypes
  PROVE  XEventsInv' /\ queue' \in Seq(X!Events)
           /\ (XNoneOf(queue', {"UnmapNotify"}) <=> XNoneOf(queue, {"UnmapNotify"}))
  <1>1. X!TypeOK /\ XEventsInv /\ state' \in X!WindowStates
    BY DEF XInv, X!TypeOK
  <1>2. "UnmapNotify" \in XFocusTypes
    BY DEF XFocusTypes
  <1>3. /\ queue' \in Seq(X!Events)
        /\ XNoneOf(queue, XFocusTypes) <=> XNoneOf(queue', XFocusTypes)
        /\ XNoneOf(queue, {"UnmapNotify"}) <=> XNoneOf(queue', {"UnmapNotify"})
    BY <1>1, <1>2, XReading
  <1>4. (XWillFocus(queue)' <=> XWillFocus(queue)) /\ (XWillHide(queue)' <=> XWillHide(queue))
    BY <1>1, XReading
  <1> QED
    BY <1>1, <1>3, <1>4 DEF XEventsInv

LEMMA XOtherTypes ==
  {"ClientMessage", "KeyPress", "KeyRelease"} \cap (XFocusTypes \cup XMapTypes) = {}
  BY DEF XFocusTypes, XMapTypes

LEMMA XHandleClientMessageInv ==
  ASSUME XInv, X!HandleClientMessage
  PROVE  XInv'
  <1> USE DEF XInv, X!history
  <1>1. /\ queue # <<>> /\ queue' = Tail(queue) /\ Head(queue).type = "ClientMessage" /\ stack' = X!Push(X!Told)
        /\ UNCHANGED <<state, flag, keys, open, alive, mapped, focused, mode, iconify, last, seen, excuse>>
    BY DEF X!HandleClientMessage, X!Reads
  <1>2. XEventsInv' /\ queue' \in Seq(X!Events) /\ (XNoneOf(queue', {"UnmapNotify"}) <=> XNoneOf(queue, {"UnmapNotify"}))
    BY <1>1, XOtherTypes, XReadsOther
  <1>3. stack' \in Seq(X!Frames) /\ \A g : X!Inside(g)' <=> X!Inside(g) \/ g = X!Told
    BY <1>1, XFrameFacts, XPushing
  <1>4. X!TypeOK'
    BY <1>1, <1>2, <1>3 DEF X!TypeOK
  <1>5. XKeysInv'
    BY <1>1, <1>3, XFrameFacts, XKeysKept
  <1>6. XQuiet' <=> XQuiet
    BY <1>3, XFrameFacts DEF XQuiet
  <1> QED
    BY <1>1, <1>2, <1>4, <1>5, <1>6, XWindowKept

\* A handler of a key takes the top call off, or none, and puts one on, or none.
LEMMA XSwapping ==
  ASSUME X!TypeOK, NEW calls, calls = stack \/ (stack # <<>> /\ calls = X!Pop),
         NEW P, (P = {} /\ stack' = calls) \/ \E f \in X!Frames : P = {f} /\ stack' = Append(calls, f)
  PROVE  /\ stack' \in Seq(X!Frames)
         /\ \A g : X!Inside(g)' <=> g \in X!Range(calls) \/ g \in P
         /\ \A g : g \in X!Range(calls) => X!Inside(g)
         /\ \A g : X!Inside(g) => g \in X!Range(calls) \/ (stack # <<>> /\ calls = X!Pop /\ g = X!Top)
  <1>1. stack \in Seq(X!Frames)
    BY DEF X!TypeOK
  <1>2. calls \in Seq(X!Frames) /\ (\A g : g \in X!Range(calls) => X!Inside(g))
          /\ \A g : X!Inside(g) => g \in X!Range(calls) \/ (stack # <<>> /\ calls = X!Pop /\ g = X!Top)
    <2>1. CASE calls = stack
      BY <1>1, <2>1 DEF X!Inside
    <2>2. CASE stack # <<>> /\ calls = X!Pop
      BY <2>2, XPopping
    <2> QED
      BY <2>1, <2>2
  <1>3. stack' \in Seq(X!Frames) /\ X!Range(stack') = X!Range(calls) \cup P
    <2>1. CASE P = {} /\ stack' = calls
      BY <1>2, <2>1
    <2>2. ASSUME NEW f \in X!Frames, P = {f}, stack' = Append(calls, f)
          PROVE  stack' \in Seq(X!Frames) /\ X!Range(stack') = X!Range(calls) \cup P
      BY <1>2, <2>2, RangeOfPush, SameRange
    <2> QED
      BY <2>1, <2>2
  <1> QED
    BY <1>2, <1>3 DEF X!Inside

\* A step that handles an event of a key, or goes on after a callback about it.
LEMMA XKeyStep ==
  ASSUME XInv, NEW k \in Keys,
         NEW calls,
         calls = stack \/ (stack # <<>> /\ calls = X!Pop /\ X!Top \in {X!DownTold(k), X!UpTold(k)}),
         NEW P, (P = {} /\ stack' = calls)
                  \/ \E f \in {X!Told, X!DownTold(k), X!UpTold(k)} : P = {f} /\ stack' = Append(calls, f),
         keys' \in [Keys -> X!KeyStates], last' \in [Keys -> {"none", "press", "release", "overtaken", "lost"}],
         \A j \in Keys \ {k} : keys'[j] = keys[j] /\ last'[j] = last[j],
         last'[k] = "press" =>
           /\ X!UpTold(k) \notin X!Range(calls) \cup P
           /\ keys'[k] \in {"Triggered", "Ongoing"}
           /\ keys'[k] = "Triggered" => X!DownTold(k) \in X!Range(calls) \cup P,
         last'[k] = "release" =>
           /\ keys'[k] \in {"Suppressed", "Inactive"}
           /\ keys'[k] = "Suppressed" => X!UpTold(k) \in X!Range(calls) \cup P,
         UNCHANGED <<state, flag, open, alive, mapped, focused, mode, iconify, seen, excuse>>,
         XEventsInv', queue' \in Seq(X!Events),
         XNoneOf(queue', {"UnmapNotify"}) => XNoneOf(queue, {"UnmapNotify"})
  PROVE  XInv'
  <1> USE DEF XInv
  <1>1. {X!Told, X!DownTold(k), X!UpTold(k)} \subseteq X!Frames
          /\ \A s \in X!WindowStates : X!StateTold(s) \notin {X!Told, X!DownTold(k), X!UpTold(k)}
    BY XFrameFacts
  <1>2. \A j \in Keys \ {k} : X!DownTold(j) \notin {X!Told, X!DownTold(k), X!UpTold(k)} /\ X!UpTold(j) \notin {X!Told, X!DownTold(k), X!UpTold(k)}
    BY XFrameFacts
  <1>3. P \subseteq {X!Told, X!DownTold(k), X!UpTold(k)}
    OBVIOUS
  <1>4. calls = stack \/ (stack # <<>> /\ calls = X!Pop)
    OBVIOUS
  <1>5. (P = {} /\ stack' = calls) \/ \E f \in X!Frames : P = {f} /\ stack' = Append(calls, f)
    BY <1>1
  <1>6. /\ stack' \in Seq(X!Frames)
        /\ \A g : X!Inside(g)' <=> g \in X!Range(calls) \/ g \in P
        /\ \A g : g \in X!Range(calls) => X!Inside(g)
        /\ \A g : X!Inside(g) => g \in X!Range(calls) \/ (stack # <<>> /\ calls = X!Pop /\ g = X!Top)
    BY <1>4, <1>5, XSwapping
  <1>7. \A g : g \notin {X!Told, X!DownTold(k), X!UpTold(k)} => (X!Inside(g)' <=> X!Inside(g))
    <2>1. stack # <<>> /\ calls = X!Pop => calls = stack \/ X!Top \in {X!DownTold(k), X!UpTold(k)}
      OBVIOUS
    <2> QED
      BY <1>3, <1>6, <2>1 DEF X!Inside
  <1>8. XQuiet' <=> XQuiet
    BY <1>1, <1>7 DEF XQuiet
  <1>9. X!TypeOK'
    BY <1>6 DEF X!TypeOK
  <1>10. XKeysInv'
    <2> SUFFICES ASSUME NEW j \in Keys
                 PROVE  /\ last'[j] = "press" =>
                             /\ ~X!Inside(X!UpTold(j))'
                             /\ keys'[j] \in {"Triggered", "Ongoing"}
                             /\ keys'[j] = "Triggered" => X!Inside(X!DownTold(j))'
                        /\ last'[j] = "release" =>
                             /\ keys'[j] \in {"Suppressed", "Inactive"}
                             /\ keys'[j] = "Suppressed" => X!Inside(X!UpTold(j))'
      BY DEF XKeysInv, X!Inside
    <2>1. CASE j = k
      BY <1>6, <2>1
    <2>2. CASE j # k
      BY <1>2, <1>7, <2>2 DEF XKeysInv
    <2> QED
      BY <2>1, <2>2
  <1> QED
    BY <1>8, <1>9, <1>10, XWindowKept

LEMMA XReadsKey ==
  ASSUME XInv, NEW type \in X!KeyEvents, X!Reads(type),
         UNCHANGED <<state, open, mapped, focused, seen>>
  PROVE  XEventsInv' /\ queue' \in Seq(X!Events)
           /\ (XNoneOf(queue', {"UnmapNotify"}) => XNoneOf(queue, {"UnmapNotify"}))
  <1>1. queue # <<>> /\ queue' = Tail(queue) /\ Head(queue).type \notin XFocusTypes \cup XMapTypes
    BY XOtherTypes DEF X!Reads, X!KeyEvents
  <1> QED
    BY <1>1, XReadsOther

LEMMA XHandleKeyPressInv ==
  ASSUME XInv, NEW k \in Keys, X!HandleKeyPress(k)
  PROVE  XInv'
  <1> DEFINE calls == stack
  <1>0. calls = stack
    OBVIOUS
  <1>1. UNCHANGED <<state, flag, open, alive, mapped, focused, mode, iconify, seen, excuse>> /\ X!Reads("KeyPress")
          /\ last' = [last EXCEPT ![k] = IF X!Inside(X!UpTold(k)) THEN "overtaken" ELSE "press"] /\ X!KeyDown(k)
    BY DEF X!HandleKeyPress
  <1>2. UNCHANGED <<state, flag, open, alive, mapped, focused, mode, iconify, seen, excuse>>
    BY <1>1
  <1>3. XEventsInv' /\ queue' \in Seq(X!Events) /\ (XNoneOf(queue', {"UnmapNotify"}) => XNoneOf(queue, {"UnmapNotify"}))
    BY <1>1, XReadsKey DEF X!KeyEvents
  <1>4. keys \in [Keys -> X!KeyStates] /\ last \in [Keys -> {"none", "press", "release", "overtaken", "lost"}]
    BY DEF XInv, X!TypeOK
  <1>5. last' \in [Keys -> {"none", "press", "release", "overtaken", "lost"}]
          /\ \A j \in Keys \ {k} : last'[j] = last[j]
    BY <1>1, <1>4
  <1>6. last'[k] # "release" /\ (last'[k] = "press" => X!UpTold(k) \notin X!Range(stack))
    BY <1>1, <1>4 DEF X!Inside
  <1>7. X!UpTold(k) # X!DownTold(k) /\ X!UpTold(k) # X!Told
    BY XFrameFacts
  <1> HIDE DEF calls
  <1>8. CASE keys[k] \in {"Inactive", "Suppressed"}
    <2>1. keys' = [keys EXCEPT ![k] = "Triggered"] /\ stack' = Append(stack, X!DownTold(k))
      BY <1>1, <1>8 DEF X!KeyDown, X!Push
    <2>2. keys' \in [Keys -> X!KeyStates] /\ keys'[k] = "Triggered" /\ \A j \in Keys \ {k} : keys'[j] = keys[j]
      BY <1>4, <2>1 DEF X!KeyStates
    <2> DEFINE P == {X!DownTold(k)}
    <2>3. \E f \in {X!Told, X!DownTold(k), X!UpTold(k)} : P = {f} /\ stack' = Append(calls, f)
      BY <1>0, <2>1
    <2>4. last'[k] = "press" => X!UpTold(k) \notin X!Range(calls) \cup P /\ X!DownTold(k) \in X!Range(calls) \cup P
      BY <1>0, <1>6, <1>7
    <2> HIDE DEF P
    <2>5. last'[k] = "press" =>
            /\ X!UpTold(k) \notin X!Range(calls) \cup P
            /\ keys'[k] \in {"Triggered", "Ongoing"}
            /\ keys'[k] = "Triggered" => X!DownTold(k) \in X!Range(calls) \cup P
      BY <2>2, <2>4
    <2>6. last'[k] = "release" =>
            /\ keys'[k] \in {"Suppressed", "Inactive"}
            /\ keys'[k] = "Suppressed" => X!UpTold(k) \in X!Range(calls) \cup P
      BY <1>6
    <2> QED
      BY <1>0, <1>2, <1>3, <1>5, <2>2, <2>3, <2>5, <2>6, XKeyStep
  <1>9. CASE keys[k] \in {"Triggered", "Ongoing"}
    <2>1. keys' = [keys EXCEPT ![k] = IF @ = "Triggered" THEN "Ongoing" ELSE @] /\ stack' = Append(stack, X!Told)
      BY <1>1, <1>9 DEF X!KeyDown, X!KeyDownRest
    <2>2. keys' \in [Keys -> X!KeyStates] /\ keys'[k] = "Ongoing" /\ \A j \in Keys \ {k} : keys'[j] = keys[j]
      BY <1>4, <1>9, <2>1 DEF X!KeyStates
    <2> DEFINE P == {X!Told}
    <2>3. \E f \in {X!Told, X!DownTold(k), X!UpTold(k)} : P = {f} /\ stack' = Append(calls, f)
      BY <1>0, <2>1
    <2>4. last'[k] = "press" => X!UpTold(k) \notin X!Range(calls) \cup P
      BY <1>0, <1>6, <1>7
    <2> HIDE DEF P
    <2>5. last'[k] = "press" =>
            /\ X!UpTold(k) \notin X!Range(calls) \cup P
            /\ keys'[k] \in {"Triggered", "Ongoing"}
            /\ keys'[k] = "Triggered" => X!DownTold(k) \in X!Range(calls) \cup P
      BY <2>2, <2>4
    <2>6. last'[k] = "release" =>
            /\ keys'[k] \in {"Suppressed", "Inactive"}
            /\ keys'[k] = "Suppressed" => X!UpTold(k) \in X!Range(calls) \cup P
      BY <1>6
    <2> QED
      BY <1>0, <1>2, <1>3, <1>5, <2>2, <2>3, <2>5, <2>6, XKeyStep
  <1> QED
    BY <1>4, <1>8, <1>9 DEF X!KeyStates

\* handle_virtual_key_up, from the event loop or from itself.
LEMMA XKeyUpInv ==
  ASSUME XInv, NEW k \in Keys,
         NEW calls,
         calls = stack \/ (stack # <<>> /\ calls = X!Pop /\ X!Top \in {X!DownTold(k), X!UpTold(k)}),
         X!KeyUp(k, calls), last' \in [Keys -> {"none", "press", "release", "overtaken", "lost"}],
         \A j \in Keys \ {k} : last'[j] = last[j], last'[k] # "press",
         UNCHANGED <<state, flag, open, alive, mapped, focused, mode, iconify, seen, excuse>>,
         XEventsInv', queue' \in Seq(X!Events),
         XNoneOf(queue', {"UnmapNotify"}) => XNoneOf(queue, {"UnmapNotify"})
  PROVE  XInv'
  <1>1. keys \in [Keys -> X!KeyStates]
    BY DEF XInv, X!TypeOK
  <1>2. CASE keys[k] \in {"Ongoing", "Triggered"}
    <2>1. keys' = [keys EXCEPT ![k] = "Suppressed"] /\ stack' = Append(calls, X!UpTold(k))
      BY <1>2 DEF X!KeyUp
    <2>2. keys' \in [Keys -> X!KeyStates] /\ keys'[k] = "Suppressed" /\ \A j \in Keys \ {k} : keys'[j] = keys[j]
      BY <1>1, <2>1 DEF X!KeyStates
    <2> DEFINE P == {X!UpTold(k)}
    <2>3. \E f \in {X!Told, X!DownTold(k), X!UpTold(k)} : P = {f} /\ stack' = Append(calls, f)
      BY <2>1
    <2>4. X!UpTold(k) \in X!Range(calls) \cup P
      OBVIOUS
    <2> HIDE DEF P
    <2> QED
      BY <2>2, <2>3, <2>4, XKeyStep
  <1>3. CASE keys[k] = "Suppressed"
    <2>1. keys' = [keys EXCEPT ![k] = "Inactive"] /\ stack' = Append(calls, X!Told)
      BY <1>3 DEF X!KeyUp
    <2>2. keys' \in [Keys -> X!KeyStates] /\ keys'[k] = "Inactive" /\ \A j \in Keys \ {k} : keys'[j] = keys[j]
      BY <1>1, <2>1 DEF X!KeyStates
    <2> DEFINE P == {X!Told}
    <2>3. \E f \in {X!Told, X!DownTold(k), X!UpTold(k)} : P = {f} /\ stack' = Append(calls, f)
      BY <2>1
    <2> HIDE DEF P
    <2> QED
      BY <2>2, <2>3, XKeyStep
  <1>4. CASE keys[k] = "Inactive"
    <2>1. keys' = keys /\ stack' = calls
      BY <1>4 DEF X!KeyUp
    <2>2. keys' \in [Keys -> X!KeyStates] /\ keys'[k] = "Inactive" /\ \A j \in Keys \ {k} : keys'[j] = keys[j]
      BY <1>1, <1>4, <2>1
    <2> DEFINE P == {}
    <2>3. P = {} /\ stack' = calls
      BY <2>1
    <2> HIDE DEF P
    <2> QED
      BY <2>2, <2>3, XKeyStep
  <1> QED
    BY <1>1, <1>2, <1>3, <1>4 DEF X!KeyStates

LEMMA XHandleKeyReleaseInv ==
  ASSUME XInv, NEW k \in Keys, X!HandleKeyRelease(k)
  PROVE  XInv'
  <1>1. UNCHANGED <<state, flag, open, alive, mapped, focused, mode, iconify, seen, excuse>> /\ X!Reads("KeyRelease")
          /\ last' = [last EXCEPT ![k] = "release"] /\ X!KeyUp(k, stack)
    BY DEF X!HandleKeyRelease
  <1>2. XEventsInv' /\ queue' \in Seq(X!Events) /\ (XNoneOf(queue', {"UnmapNotify"}) => XNoneOf(queue, {"UnmapNotify"}))
    BY <1>1, XReadsKey DEF X!KeyEvents
  <1>3. last' \in [Keys -> {"none", "press", "release", "overtaken", "lost"}] /\ last'[k] # "press"
          /\ \A j \in Keys \ {k} : last'[j] = last[j]
    BY <1>1 DEF XInv, X!TypeOK
  <1> QED
    BY <1>1, <1>2, <1>3, XKeyUpInv

LEMMA XKeyCallbackReturnsInv ==
  ASSUME XInv, X!KeyCallbackReturns
  PROVE  XInv'
  <1>1. stack # <<>> /\ X!TypeOK /\ XKeysInv
    BY DEF X!KeyCallbackReturns, X!InCallback, XInv
  <1>2. UNCHANGED <<state, flag, open, alive, mapped, focused, mode, iconify, queue, last, seen, excuse>>
    BY DEF X!KeyCallbackReturns, X!screen, X!history
  <1>3. XEventsInv' /\ queue' \in Seq(X!Events) /\ (XNoneOf(queue', {"UnmapNotify"}) => XNoneOf(queue, {"UnmapNotify"}))
    BY <1>2 DEF XInv, X!TypeOK, XEventsInv, XWillFocus, XWillHide
  <1>4. last' \in [Keys -> {"none", "press", "release", "overtaken", "lost"}] /\ keys \in [Keys -> X!KeyStates]
    BY <1>2 DEF XInv, X!TypeOK
  <1>5. \A g : X!Inside(g) <=> g \in X!Range(X!Pop) \/ g = X!Top
    BY <1>1, XPopping
  <1>6. ASSUME NEW k \in Keys, X!Top = X!DownTold(k), X!KeyDownRest(k, X!Pop)
        PROVE  XInv'
    <2>1. keys' = [keys EXCEPT ![k] = IF @ = "Triggered" THEN "Ongoing" ELSE @] /\ stack' = Append(X!Pop, X!Told)
      BY <1>6 DEF X!KeyDownRest
    <2>2. keys' \in [Keys -> X!KeyStates] /\ \A j \in Keys \ {k} : keys'[j] = keys[j]
      BY <1>4, <2>1 DEF X!KeyStates
    <2>3. keys'[k] = IF keys[k] = "Triggered" THEN "Ongoing" ELSE keys[k]
      BY <1>4, <2>1
    <2> DEFINE P == {X!Told}
    <2>4. \E f \in {X!Told, X!DownTold(k), X!UpTold(k)} : P = {f} /\ stack' = Append(X!Pop, f)
      BY <2>1
    <2>5. X!UpTold(k) \in X!Range(X!Pop) \cup P <=> X!Inside(X!UpTold(k))
      BY <1>5, <1>6, XFrameFacts
    <2> HIDE DEF P
    <2>6. last'[k] = "press" => X!UpTold(k) \notin X!Range(X!Pop) \cup P /\ keys'[k] = "Ongoing"
      BY <1>1, <1>2, <2>3, <2>5 DEF XKeysInv
    <2>7. last'[k] = "release" => /\ keys'[k] \in {"Suppressed", "Inactive"}
                                  /\ keys'[k] = "Suppressed" => X!UpTold(k) \in X!Range(X!Pop) \cup P
      BY <1>1, <1>2, <2>3, <2>5 DEF XKeysInv
    <2> QED
      BY <1>1, <1>2, <1>3, <1>4, <1>6, <2>2, <2>4, <2>6, <2>7, XKeyStep
  <1>7. ASSUME NEW k \in Keys, X!Top = X!UpTold(k), X!KeyUp(k, X!Pop)
        PROVE  XInv'
    <2>1. last'[k] # "press"
      BY <1>1, <1>2, <1>5, <1>7 DEF XKeysInv
    <2> QED
      BY <1>1, <1>2, <1>3, <1>4, <1>7, <2>1, XKeyUpInv
  <1>8. ASSUME X!Top = X!Told, stack' = X!Pop, UNCHANGED keys
        PROVE  XInv'
    <2>1. stack' \in Seq(X!Frames) /\ \A g : X!Inside(g) <=> X!Inside(g)' \/ g = X!Told
      BY <1>1, <1>8, XPopping DEF X!Inside
    <2> QED
      BY <1>1, <1>2, <1>8, <2>1, XFrameFacts, XCallsOnly DEF X!screen, X!history
  <1> QED
    BY <1>6, <1>7, <1>8 DEF X!KeyCallbackReturns

\* The callback about the state has returned, and the mode of the display is switched.
LEMMA XSwitchInv ==
  ASSUME XInv, stack # <<>>, X!Top \in {X!StateTold(s) : s \in X!WindowStates}, flag,
         UNCHANGED <<state, flag, keys, open, seen>>,
         X!AfterSwitch, mode' = IF X!Top.new = "Focused" THEN "full" ELSE "desktop",
         {alive', focused', iconify'} \subseteq BOOLEAN, focused' => mapped', queue' \in Seq(X!Events), XEventsInv',
         X!Top.new # "Focused" /\ open => iconify'
  PROVE  XInv'
  <1> USE DEF XInv
  <1>1. PICK s \in X!WindowStates : X!Top = X!StateTold(s) /\ X!Top.new = s
    BY DEF X!StateTold
  <1>2. UNCHANGED <<last, mapped>> /\ excuse' = (IF s = state THEN "none" ELSE "stale") /\ stack' = X!Pop
    BY <1>1 DEF X!AfterSwitch
  <1>3. stack' \in Seq(X!Frames) /\ \A g : X!Inside(g) <=> X!Inside(g)' \/ g = X!StateTold(s)
    BY <1>1, <1>2, XPopping DEF X!Inside
  <1>4. X!TypeOK'
    BY <1>1, <1>2, <1>3 DEF X!TypeOK
  <1>5. XKeysInv'
    BY <1>2, <1>3, XFrameFacts, XKeysKept
  <1>6. XModeInv'
    BY <1>1, <1>2 DEF XModeInv
  <1>7. seen
    BY <1>3 DEF XStartInv, XQuiet
  <1>8. XStartInv' /\ XLingerInv'
    BY <1>1, <1>2, <1>7 DEF XStartInv, XLingerInv
  <1> QED
    BY <1>4, <1>5, <1>6, <1>8

LEMMA XStateCallbackReturnsInv ==
  ASSUME XInv, X!StateCallbackReturns
  PROVE  XInv'
  <1> USE DEF XInv
  <1>1. UNCHANGED <<state, flag, keys, open, seen>> /\ stack # <<>> /\ X!Top.fn = "StateTold"
    BY DEF X!StateCallbackReturns, X!InCallback
  <1>2. PICK s \in X!WindowStates : X!Top = X!StateTold(s) /\ X!Top.new = s
    <2>1. X!Top \in X!Frames
      BY <1>1, XPopping
    <2> QED
      BY <1>1, <2>1 DEF X!Frames, X!StateTold
  <1>3. ASSUME ~flag, stack' = X!Pop, UNCHANGED <<alive, X!screen, last, excuse>>
        PROVE  XInv'
    <2>1. stack' \in Seq(X!Frames) /\ \A g : X!Inside(g) <=> X!Inside(g)' \/ g = X!StateTold(s)
      BY <1>1, <1>2, <1>3, XPopping DEF X!Inside
    <2>2. X!TypeOK'
      BY <1>1, <1>3, <2>1 DEF X!TypeOK, X!screen
    <2>3. XKeysInv'
      BY <1>1, <1>3, <2>1, XFrameFacts, XKeysKept
    <2>4. XModeInv' /\ XLingerInv'
      BY <1>1, <1>3 DEF XModeInv, XLingerInv, X!screen
    <2>5. XStartInv'
      BY <1>1, <2>1 DEF XStartInv, XQuiet
    <2>6. XEventsInv'
      BY <1>1, <1>3 DEF XEventsInv, XWillFocus, XWillHide, X!screen
    <2> QED
      BY <2>2, <2>3, <2>4, <2>5, <2>6
  <1>4. CASE X!Throw(X!Depth - 1)
    <2>1. X!Depth - 1 \in 0 .. X!Depth
      <3>1. X!Depth \in Nat \ {0}
        BY <1>1, LenProperties, EmptySeq DEF X!TypeOK, X!Depth
      <3> QED
        BY <3>1
    <2>2. flag' \in BOOLEAN
      BY <1>1 DEF X!TypeOK
    <2> QED
      BY <1>1, <1>4, <2>1, <2>2, XThrowInv
  <1>5. ASSUME flag, X!Top.new = "Focused", mode' = "full", X!AfterSwitch, X!Focus
        PROVE  XInv'
    <2>1. UNCHANGED <<mapped, iconify, state, open, seen>> /\ alive' = (~open \/ mapped) /\ focused' = (open /\ mapped)
      BY <1>1, <1>5 DEF X!AfterSwitch, X!Focus
    <2>2. {alive', focused', iconify'} \subseteq BOOLEAN /\ (focused' => mapped')
      BY <2>1 DEF X!TypeOK
    <2>3. XEventsInv' /\ queue' \in Seq(X!Events)
      <3>1. CASE open /\ mapped /\ ~focused
        <4> DEFINE e == X!Event("FocusIn")
        <4>1. e \in X!Events /\ e.type = "FocusIn"
          BY XEventFacts
        <4>2. queue' = queue \o <<e>>
          BY <1>5, <3>1 DEF X!Focus, X!Send
        <4>3. IF e.type \in XFocusTypes THEN focused' = (e.type = "FocusIn") ELSE focused' = focused
          BY <2>1, <3>1, <4>1 DEF XFocusTypes
        <4>4. IF e.type \in XMapTypes THEN mapped' = (e.type # "UnmapNotify") ELSE mapped' = mapped
          BY <2>1, <3>1, <4>1 DEF XMapTypes, X!TypeOK
        <4> HIDE DEF e
        <4> QED
          BY <2>1, <3>1, <4>1, <4>2, <4>3, <4>4, XOneEvent
      <3>2. CASE ~(open /\ mapped /\ ~focused)
        <4>1. queue' = queue
          BY <1>5, <3>2 DEF X!Focus
        <4>2. open => (focused' <=> focused)
          BY <2>1, <3>2 DEF X!TypeOK
        <4> QED
          BY <2>1, <4>1, <4>2 DEF XEventsInv, XWillFocus, XWillHide, X!TypeOK
      <3> QED
        BY <3>1, <3>2
    <2>4. X!Top \in {X!StateTold(r) : r \in X!WindowStates} /\ mode' = IF X!Top.new = "Focused" THEN "full" ELSE "desktop"
      BY <1>2, <1>5
    <2> QED
      BY <1>1, <1>5, <2>2, <2>3, <2>4, XSwitchInv
  <1>6. ASSUME flag, X!Top.new # "Focused", mode' = "desktop", X!AfterSwitch, X!Minimise
        PROVE  XInv'
    <2>1. UNCHANGED <<mapped, state, open, seen, alive, focused, queue>> /\ iconify' = (iconify \/ open)
      BY <1>1, <1>6 DEF X!AfterSwitch, X!Minimise
    <2>2. {alive', focused', iconify'} \subseteq BOOLEAN /\ (focused' => mapped') /\ queue' \in Seq(X!Events)
      BY <2>1 DEF X!TypeOK
    <2>3. XEventsInv'
      BY <2>1 DEF XEventsInv, XWillFocus, XWillHide
    <2>4. X!Top \in {X!StateTold(r) : r \in X!WindowStates} /\ mode' = IF X!Top.new = "Focused" THEN "full" ELSE "desktop"
      BY <1>2, <1>6
    <2>5. open => iconify'
      BY <2>1
    <2> QED
      BY <1>1, <1>6, <2>2, <2>3, <2>4, <2>5, XSwitchInv
  <1> QED
    BY <1>3, <1>4, <1>5, <1>6 DEF X!StateCallbackReturns, X!HandleWindowFullscreen, X!HandleWindowRestore

LEMMA XUnchanged ==
  ASSUME XInv, UNCHANGED X!vars
  PROVE  XInv'
  BY XElsewhere
     DEF X!vars, X!program, X!screen, X!history, XInv, X!TypeOK, XEventsInv, XWillFocus, XWillHide

LEMMA XStepInv ==
  ASSUME XInv, X!Next
  PROVE  XInv'
  <1>1. CASE X!Server
    BY <1>1, XServerInv
  <1>2. CASE X!Program
    BY <1>2, XSetFlagInv, XCloseInv, XPollEventsInv, XPollReturnsInv, XDropInv, XHandleWindowEventInv,
       XHandleClientMessageInv, XHandleKeyPressInv, XHandleKeyReleaseInv, XKeyCallbackReturnsInv,
       XStateCallbackReturnsInv DEF X!Program
  <1>3. CASE X!Ended
    BY <1>3, XUnchanged DEF X!Ended
  <1> QED
    BY <1>1, <1>2, <1>3 DEF X!Next

LEMMA XInvImplies ==
  ASSUME XInv
  PROVE  X!KeysFollowEvents /\ X!StateIsTrue /\ X!ModeFitsState /\ X!NeverLingers
  <1> USE DEF XInv
  <1>1. X!KeysFollowEvents
    BY DEF XKeysInv, X!KeysFollowEvents
  <1>2. queue = <<>> => \A types, t : XNoneOf(queue, types) /\ ~XEndsWith(queue, types, t)
    BY DEF XNoneOf, XEndsWith
  <1>3. X!StateIsTrue
    BY <1>2 DEF XEventsInv, X!StateIsTrue, XWillFocus, XWillHide
  <1>4. X!ModeFitsState
    BY DEF XModeInv, X!ModeFitsState, XQuiet
  <1>5. stack = <<>> => XQuiet
    BY DEF XQuiet, X!Inside, X!Range
  <1>6. X!NeverLingers
    BY <1>2, <1>3, <1>5 DEF XLingerInv, X!NeverLingers, X!StateIsTrue, X!TypeOK, X!WindowStates
  <1> QED
    BY <1>1, <1>3, <1>4, <1>6

\* Only focus() ends the process.
LEMMA XNextDiesInRace ==
  ASSUME XInv, X!Next
  PROVE  X!DiesInRace
  <1> USE DEF XInv
  <1> SUFFICES ASSUME alive, ~alive'
               PROVE  X!Top.new # state \/ X!Event("UnmapNotify") \in X!Range(queue)
    BY DEF X!DiesInRace
  <1>1. X!StateCallbackReturns
    BY DEF X!Next, X!Server, X!Program, X!Ended, X!Map, X!GiveFocus, X!TakeFocus, X!Iconify,
           X!AskToClose, X!UseKey, X!SetFlag,
           X!HandleFlagUpdate, X!HandleWindowFullscreen, X!HandleWindowRestore, X!Throw, X!Close,
           X!PollEvents, X!PollReturns,
           X!Drop, X!HandleWindowEvent, X!HandleClientMessage, X!HandleKeyPress, X!HandleKeyRelease,
           X!KeyCallbackReturns,
           X!program, X!vars
  <1>2. X!Focus /\ X!Top.new = "Focused" /\ stack # <<>> /\ X!Top.fn = "StateTold"
    BY <1>1
       DEF X!StateCallbackReturns, X!InCallback, X!HandleWindowFullscreen, X!HandleWindowRestore, X!Throw, X!Minimise
  <1>3. open /\ ~mapped
    BY <1>2 DEF X!Focus
  <1>4. seen
    <2>1. X!Top \in X!Frames /\ X!Inside(X!Top)
      BY <1>2, XPopping
    <2>2. X!Top \in {X!StateTold(s) : s \in X!WindowStates}
      BY <1>2, <2>1 DEF X!Frames, X!StateTold
    <2> QED
      BY <2>1, <2>2 DEF XStartInv, XQuiet
  <1>5. state = "Focused" => XEndsWith(queue, XMapTypes, "UnmapNotify")
    BY <1>3, <1>4 DEF XEventsInv, XWillHide
  <1>6. \A i \in DOMAIN queue : queue[i].type = "UnmapNotify" => queue[i] = X!Event("UnmapNotify")
    <2>1. \A i \in DOMAIN queue : queue[i] \in X!Events
      BY LenProperties, ElementOfSeq DEF X!TypeOK
    <2> QED
      BY <2>1 DEF X!Events, X!Event, X!KeyEvents
  <1>7. XEndsWith(queue, XMapTypes, "UnmapNotify") => X!Event("UnmapNotify") \in X!Range(queue)
    BY <1>6 DEF XEndsWith, X!Range
  <1> QED
    BY <1>2, <1>5, <1>7

-------------------------------------------------------------------------------
(* Windows: what is always true                                            *)

\* The lists of messages that a call into Windows sends, and what is left of them.
WLists ==
  {<<>>, <<"Active">>, <<"Click">>, <<"Inactive">>, <<"Minimized">>, <<"Restored">>,
   <<"Active", "Restored">>, <<"Minimized", "Inactive">>, <<"Inactive", "Minimized">>}

WCalls ==
  {W!Poll, W!Told, W!Destroying} \cup {W!Sent(msgs) : msgs \in WLists}
    \cup {W!Sized(ok) : ok \in BOOLEAN} \cup {W!StateTold(new) : new \in W!WindowStates}
    \cup {W!DownTold(k) : k \in Keys} \cup {W!UpTold(k) : k \in Keys}

\* No callback about the state is under way; the window is not going; a message is next.
WQuiet == \A c \in W!Range(stack) : c.fn # "StateTold"
WStays == open /\ \A c \in W!Range(stack) : c.fn # "Destroying"
WWaits == stack # <<>> /\ W!Top.fn = "Sent" /\ W!Top.msgs # <<>>

WTypeInv == W!TypeOK /\ stack \in Seq(WCalls)

\* Where the last message for a key, and the calls under way, leave the key.
WKeysInv ==
  \A k \in Keys :
    /\ last[k] = "press" =>
         /\ ~W!Inside(W!UpTold(k))
         /\ keys[k] \in {"Triggered", "Ongoing"}
         /\ keys[k] = "Triggered" => W!Inside(W!DownTold(k))
    /\ last[k] = "release" =>
         /\ keys[k] \in {"Suppressed", "Inactive"}
         /\ keys[k] = "Suppressed" => W!Inside(W!UpTold(k))

\* The mode of the display and the frame, with a callback about the state and with none.
WModeInv ==
  excuse = "none" =>
    /\ ~flag => mode = "desktop"
    /\ WQuiet => (mode = "full" <=> flag /\ state = "Focused")
    /\ mixed \/ (framed <=> mode = "desktop" /\ ~borderless)

\* The state is what Windows knows of the window.
WStateTrue == (state = "Focused" <=> focused) /\ (state = "Hidden" <=> ~mapped)

\* The state is true but for the message that is next.
WNextInv ==
  WStays /\ ~misled =>
    IF WWaits
    THEN /\ W!Top.msgs \in {<<"Inactive">>, <<"Inactive", "Minimized">>} => (state = "Hidden" => ~mapped)
         /\ W!Top.msgs = <<"Restored">> => mapped /\ (state = "Focused" <=> focused)
    ELSE WStateTrue

\* A message that has to wait for others and says the window is no icon is true.
WLaterInv ==
  WStays /\ ~misled /\ stack # <<>> /\ W!Sent(<<"Restored">>) \in W!Range(W!Below) =>
    mapped \/ (WWaits /\ W!Top.msgs \in {<<"Minimized">>, <<"Minimized", "Inactive">>, <<"Inactive", "Minimized">>})

\* A fullscreen window that the program knows to be out of focus is an icon, and the
\* program is about to be told.
WLingerInv ==
  WStays /\ ~misled /\ flag /\ excuse = "none" /\ WQuiet /\ state = "Visible" =>
     stack # <<>> /\ W!Top = W!Sent(<<"Minimized">>)

WInv == WTypeInv /\ WKeysInv /\ WModeInv /\ WNextInv /\ WLaterInv /\ WLingerInv

-------------------------------------------------------------------------------
(* The calls under way                                                     *)

LEMMA WListOfOne ==
  ASSUME NEW g
  PROVE  Head(<<g>>) = g /\ Tail(<<g>>) = <<>>
  <1>1. <<g>> \in Seq({g}) /\ <<g>> # <<>> /\ Len(<<g>>) = 1 /\ <<g>>[1] = g
    OBVIOUS
  <1>2. Tail(<<g>>) \in Seq({g}) /\ Len(Tail(<<g>>)) = 0
    BY <1>1, HeadTailProperties
  <1> QED
    BY <1>1, <1>2, EmptySeq, HeadTailProperties

LEMMA WListOfTwo ==
  ASSUME NEW g, NEW h
  PROVE  Head(<<g, h>>) = g /\ Tail(<<g, h>>) = <<h>>
  <1>1. <<g, h>> \in Seq({g, h}) /\ <<g, h>> # <<>> /\ Len(<<g, h>>) = 2
    OBVIOUS
  <1>2. <<h>> \in Seq({g, h}) /\ Len(<<h>>) = 1 /\ <<h>>[1] = h /\ <<g, h>>[2] = h /\ <<g, h>>[1] = g
    OBVIOUS
  <1>3. Tail(<<g, h>>) \in Seq({g, h}) /\ Len(Tail(<<g, h>>)) = 1
    BY <1>1, HeadTailProperties
  <1>4. Tail(<<g, h>>)[1] = <<g, h>>[2]
    BY <1>1, <1>3, HeadTailProperties
  <1>5. \A i \in 1 .. 1 : Tail(<<g, h>>)[i] = <<h>>[i]
    BY <1>2, <1>4
  <1>6. Tail(<<g, h>>) = <<h>>
    BY <1>2, <1>3, <1>5, SeqEqual
  <1> QED
    BY <1>1, <1>2, <1>6, HeadTailProperties

LEMMA WListCases ==
  ASSUME NEW l \in WLists, l # <<>>
  PROVE  /\ Tail(l) \in WLists
         /\ \/ l = <<"Active">> /\ Head(l) = "Active" /\ Tail(l) = <<>>
            \/ l = <<"Click">> /\ Head(l) = "Click" /\ Tail(l) = <<>>
            \/ l = <<"Inactive">> /\ Head(l) = "Inactive" /\ Tail(l) = <<>>
            \/ l = <<"Minimized">> /\ Head(l) = "Minimized" /\ Tail(l) = <<>>
            \/ l = <<"Restored">> /\ Head(l) = "Restored" /\ Tail(l) = <<>>
            \/ l = <<"Active", "Restored">> /\ Head(l) = "Active" /\ Tail(l) = <<"Restored">>
            \/ l = <<"Minimized", "Inactive">> /\ Head(l) = "Minimized" /\ Tail(l) = <<"Inactive">>
            \/ l = <<"Inactive", "Minimized">> /\ Head(l) = "Inactive" /\ Tail(l) = <<"Minimized">>
  <1>1. \/ l \in {<<"Active">>, <<"Click">>, <<"Inactive">>, <<"Minimized">>, <<"Restored">>}
        \/ l \in {<<"Active", "Restored">>, <<"Minimized", "Inactive">>, <<"Inactive", "Minimized">>}
    BY DEF WLists
  <1>2. {<<>>, <<"Inactive">>, <<"Minimized">>, <<"Restored">>} \subseteq WLists
    BY DEF WLists
  <1>3. CASE l \in {<<"Active">>, <<"Click">>, <<"Inactive">>, <<"Minimized">>, <<"Restored">>}
    BY <1>2, <1>3, WListOfOne
  <1>4. CASE l \in {<<"Active", "Restored">>, <<"Minimized", "Inactive">>, <<"Inactive", "Minimized">>}
    BY <1>2, <1>4, WListOfTwo
  <1> QED
    BY <1>1, <1>3, <1>4

LEMMA WListFacts ==
  /\ \A h \in {"Active", "Click", "Inactive", "Minimized", "Restored"} : <<h>> # <<>> /\ <<h>> \in WLists
  /\ \A g, h : <<g>> = <<h>> => g = h
  /\ \A g, h, i : <<g, h>> # <<i>> /\ <<g, h>> # <<>>
  /\ \A g, h, i, j : <<g, h>> = <<i, j>> => g = i /\ h = j
  /\ <<"Active", "Restored">> \in WLists
  /\ <<"Minimized", "Inactive">> \in WLists /\ <<"Inactive", "Minimized">> \in WLists
  <1>1. \A h \in {"Active", "Click", "Inactive", "Minimized", "Restored"} : <<h>> # <<>> /\ <<h>> \in WLists
    BY DEF WLists
  <1>2. \A g, h : <<g>> = <<h>> => g = h
    OBVIOUS
  <1>3. \A g, h, i : <<g, h>> # <<i>> /\ <<g, h>> # <<>>
    OBVIOUS
  <1>4. \A g, h, i, j : <<g, h>> = <<i, j>> => g = i /\ h = j
    OBVIOUS
  <1>5. /\ <<"Active", "Restored">> \in WLists
        /\ <<"Minimized", "Inactive">> \in WLists /\ <<"Inactive", "Minimized">> \in WLists
    BY DEF WLists
  <1> QED
    BY <1>1, <1>2, <1>3, <1>4, <1>5

LEMMA WCallFacts ==
  /\ W!Poll \in WCalls /\ W!Told \in WCalls /\ W!Destroying \in WCalls
  /\ \A l \in WLists : W!Sent(l) \in WCalls
  /\ \A ok \in BOOLEAN : W!Sized(ok) \in WCalls
  /\ \A new \in W!WindowStates : W!StateTold(new) \in WCalls
  /\ \A k \in Keys : W!DownTold(k) \in WCalls /\ W!UpTold(k) \in WCalls
  BY DEF WCalls

LEMMA WCallKinds ==
  /\ W!Poll.fn = "Poll" /\ W!Told.fn = "Told" /\ W!Destroying.fn = "Destroying"
  /\ \A x : /\ W!Sent(x).fn = "Sent" /\ W!Sent(x).msgs = x /\ W!Sized(x).fn = "Sized" /\ W!Sized(x).ok = x
            /\ W!StateTold(x).fn = "StateTold" /\ W!StateTold(x).new = x
            /\ W!DownTold(x).fn = "DownTold" /\ W!DownTold(x).key = x
            /\ W!UpTold(x).fn = "UpTold" /\ W!UpTold(x).key = x
  BY DEF W!Poll, W!Told, W!Destroying, W!Sent, W!Sized, W!StateTold, W!DownTold, W!UpTold

LEMMA WCallShapes ==
  ASSUME NEW c \in WCalls
  PROVE  /\ c.fn = "Sent" => c.msgs \in WLists /\ c = W!Sent(c.msgs)
         /\ c.fn = "StateTold" => c.new \in W!WindowStates
         /\ c.fn = "Sized" => c.ok \in BOOLEAN
         /\ c.fn \in W!Callbacks \cup {"Poll", "Sent", "Sized", "Destroying"}
  BY DEF WCalls, W!Callbacks, W!Poll, W!Told, W!Destroying, W!Sent, W!Sized, W!StateTold, W!DownTold,
         W!UpTold

\* The calls without the top one, or all.
LEMMA WPopping ==
  ASSUME stack \in Seq(WCalls), NEW calls, calls = stack \/ (stack # <<>> /\ calls = W!Below)
  PROVE  /\ calls \in Seq(WCalls)
         /\ \A c : c \in W!Range(calls) => W!Inside(c)
         /\ \A c : W!Inside(c) => c \in W!Range(calls) \/ (stack # <<>> /\ calls = W!Below /\ c = W!Top)
         /\ stack # <<>> => W!Top \in WCalls /\ W!Inside(W!Top)
  <1>1. stack # <<>> => /\ W!Below \in Seq(WCalls) /\ W!Top \in WCalls
                        /\ W!Range(stack) = W!Range(W!Below) \cup {W!Top}
    BY RangeOfPop, SameRange DEF W!Below, W!Top, W!Depth
  <1>2. CASE calls = stack
    BY <1>1, <1>2 DEF W!Inside
  <1>3. CASE stack # <<>> /\ calls = W!Below
    BY <1>1, <1>3 DEF W!Inside
  <1> QED
    BY <1>2, <1>3

\* One more call; two.
LEMMA WPushing ==
  ASSUME NEW calls \in Seq(WCalls), NEW c \in WCalls, stack' = Append(calls, c)
  PROVE  /\ stack' \in Seq(WCalls) /\ stack' # <<>> /\ W!Top' = c /\ W!Below' = calls
         /\ W!Range(stack') = W!Range(calls) \cup {c}
  <1>1. /\ stack' \in Seq(WCalls) /\ stack' # <<>> /\ Len(stack') = Len(calls) + 1
        /\ stack'[Len(calls) + 1] = c /\ W!Range(stack') = W!Range(calls) \cup {c}
    BY RangeOfPush, SameRange
  <1>2. Len(calls) \in Nat
    BY LenProperties
  <1>3. W!Top' = c
    BY <1>1 DEF W!Top, W!Depth
  <1>4. Len(W!Below') = Len(calls) /\ W!Below' \in Seq(WCalls)
    BY <1>1, <1>2, RangeOfPop, SameRange DEF W!Below, W!Depth
  <1>5. \A i \in 1 .. Len(calls) : W!Below'[i] = calls[i]
    <2>1. \A i \in 1 .. Len(calls) : W!Below'[i] = stack'[i]
      BY <1>1, <1>2, RangeOfPop, SameRange DEF W!Below, W!Depth
    <2>2. \A i \in 1 .. Len(calls) : stack'[i] = calls[i]
      BY AppendProperties
    <2> QED
      BY <2>1, <2>2
  <1>6. W!Below' = calls
    BY <1>4, <1>5, SeqEqual
  <1> QED
    BY <1>1, <1>3, <1>6

\* What is below the top of fewer calls was below it before.
LEMMA WCutting ==
  ASSUME stack \in Seq(WCalls), NEW d \in 0 .. W!Depth, stack' = SubSeq(stack, 1, d)
  PROVE  /\ stack' \in Seq(WCalls)
         /\ \A c : W!Inside(c)' => W!Inside(c)
         /\ stack' # <<>> => W!Inside(W!Top)' /\ \A c \in W!Range(W!Below)' : W!Inside(c)
  <1>1. stack' \in Seq(WCalls) /\ W!Range(stack') \subseteq W!Range(stack)
    BY RangeOfCut, SameRange DEF W!Depth
  <1>2. stack' # <<>> => W!Range(stack') = W!Range(W!Below)' \cup {W!Top'}
    BY <1>1, RangeOfPop, SameRange DEF W!Below, W!Top, W!Depth
  <1> QED
    BY <1>1, <1>2 DEF W!Inside

\* A handler takes the top call off, or none, and puts one on, or none.
LEMMA WMoving ==
  ASSUME stack \in Seq(WCalls), NEW calls, calls = stack \/ (stack # <<>> /\ calls = W!Below),
         NEW P, (P = {} /\ stack' = calls) \/ \E f \in WCalls : P = {f} /\ stack' = Append(calls, f)
  PROVE  /\ stack' \in Seq(WCalls)
         /\ \A c : W!Inside(c)' <=> c \in W!Range(calls) \/ c \in P
         /\ \A c : c \in W!Range(calls) => W!Inside(c)
         /\ \A c : W!Inside(c) => c \in W!Range(calls) \/ (stack # <<>> /\ calls = W!Below /\ c = W!Top)
         /\ stack' # <<>> => /\ W!Inside(W!Top)'
                             /\ P # {} => W!Top' \in P
                             /\ \A c \in W!Range(W!Below)' : W!Inside(c)
  <1>1. calls \in Seq(WCalls) /\ (\A c : c \in W!Range(calls) => W!Inside(c))
          /\ \A c : W!Inside(c) => c \in W!Range(calls) \/ (stack # <<>> /\ calls = W!Below /\ c = W!Top)
    BY WPopping
  <1>2. CASE P = {} /\ stack' = calls
    <2>1. stack' # <<>> => W!Range(stack') = W!Range(W!Below)' \cup {W!Top'}
      BY <1>1, <1>2, RangeOfPop, SameRange DEF W!Below, W!Top, W!Depth
    <2> QED
      BY <1>1, <1>2, <2>1 DEF W!Inside
  <1>3. ASSUME NEW f \in WCalls, P = {f}, stack' = Append(calls, f)
        PROVE  /\ stack' \in Seq(WCalls) /\ W!Range(stack') = W!Range(calls) \cup {f} /\ W!Top' = f /\ W!Below' = calls
    BY <1>1, <1>3, WPushing
  <1>4. CASE \E f \in WCalls : P = {f} /\ stack' = Append(calls, f)
    <2>1. PICK f \in WCalls : P = {f} /\ stack' = Append(calls, f)
      BY <1>4
    <2>2. stack' \in Seq(WCalls) /\ W!Range(stack') = W!Range(calls) \cup {f} /\ W!Top' = f /\ W!Below' = calls
      BY <1>3, <2>1
    <2> QED
      BY <1>1, <2>1, <2>2 DEF W!Inside
  <1> QED
    BY <1>2, <1>4

-------------------------------------------------------------------------------
(* What a step leaves as it was                                            *)

\* A step that handles no key leaves the keys where they are.
LEMMA WKeysKept ==
  ASSUME WKeysInv, UNCHANGED keys,
         \A k \in Keys : last'[k] # "lost" =>
           /\ last'[k] = last[k]
           /\ W!Inside(W!DownTold(k))' <=> W!Inside(W!DownTold(k))
           /\ W!Inside(W!UpTold(k))' <=> W!Inside(W!UpTold(k))
  PROVE  WKeysInv'
  <1> SUFFICES ASSUME NEW k \in Keys
               PROVE  /\ last'[k] = "press" =>
                           /\ ~W!Inside(W!UpTold(k))'
                           /\ keys[k] \in {"Triggered", "Ongoing"}
                           /\ keys[k] = "Triggered" => W!Inside(W!DownTold(k))'
                      /\ last'[k] = "release" =>
                           /\ keys[k] \in {"Suppressed", "Inactive"}
                           /\ keys[k] = "Suppressed" => W!Inside(W!UpTold(k))'
    BY DEF WKeysInv, W!Inside
  <1>1. CASE last'[k] = "lost"
    BY <1>1
  <1>2. CASE last'[k] # "lost"
    BY <1>2 DEF WKeysInv
  <1> QED
    BY <1>1, <1>2

\* So does one whose calls that come and go are not about keys.
LEMMA WKeysApart ==
  ASSUME WKeysInv, UNCHANGED <<keys, last>>,
         \A c : (W!Inside(c) <=> W!Inside(c)') \/ c.fn \notin {"DownTold", "UpTold"}
  PROVE  WKeysInv'
  BY WKeysKept, WCallKinds

\* The window is gone, or going.
LEMMA WGone ==
  ASSUME ~WStays', WTypeInv', WKeysInv', WModeInv'
  PROVE  WInv'
  BY DEF WInv, WNextInv, WLaterInv, WLingerInv

\* A step of the program or the user that no message waits for.  What it puts on the
\* calls, if it is a call into Windows, tells what has changed.
LEMMA WNextKept ==
  ASSUME WNextInv, WLaterInv, ~WWaits, WStays' => WStays, UNCHANGED <<state, misled>>,
         \A c \in W!Range(W!Below)' : stack' # <<>> /\ c.fn = "Sent" => W!Inside(c),
         \/ /\ UNCHANGED <<mapped, focused>>
            /\ stack' # <<>> => W!Top'.fn # "Sent" \/ W!Inside(W!Top')
         \/ /\ WWaits'
            /\ WStateTrue => /\ W!Top'.msgs \in {<<"Inactive">>, <<"Inactive", "Minimized">>} => (state = "Hidden" => ~mapped')
                             /\ W!Top'.msgs = <<"Restored">> => mapped' /\ (state = "Focused" <=> focused')
            /\ (mapped => mapped') \/ W!Top'.msgs \in {<<"Minimized">>, <<"Minimized", "Inactive">>, <<"Inactive", "Minimized">>},
         stack \in Seq(WCalls), stack' \in Seq(WCalls)
  PROVE  WNextInv' /\ WLaterInv'
  <1>1. WStays /\ ~misled => WStateTrue
    BY DEF WNextInv
  <1>2. W!Sent(<<"Restored">>).fn = "Sent" /\ W!Sent(<<"Restored">>).msgs = <<"Restored">> /\ <<"Restored">> # <<>>
    BY WCallKinds, WListFacts
  <1>3. WStays /\ ~misled /\ W!Inside(W!Sent(<<"Restored">>)) => mapped
    <2>1. W!Inside(W!Sent(<<"Restored">>)) => stack # <<>>
      BY DEF W!Inside, W!Range
    <2>2. stack # <<>> => \A c : W!Inside(c) => c \in W!Range(W!Below) \/ c = W!Top
      BY WPopping
    <2>3. ~(stack # <<>> /\ W!Top = W!Sent(<<"Restored">>))
      BY <1>2 DEF WWaits
    <2> QED
      BY <2>1, <2>2, <2>3 DEF WLaterInv
  <1>4. CASE UNCHANGED <<mapped, focused>> /\ (stack' # <<>> => W!Top'.fn # "Sent" \/ W!Inside(W!Top'))
    <2>1. WStays' /\ ~misled' => WStateTrue'
      BY <1>1, <1>4 DEF WStateTrue
    <2>2. WWaits' => W!Inside(W!Top')
      BY <1>4 DEF WWaits
    <2>3. WWaits' /\ W!Top'.msgs = <<"Restored">> => W!Top' = W!Sent(<<"Restored">>)
      <3>1. stack' # <<>> => W!Top' \in WCalls
        BY RangeOfPop, SameRange DEF W!Top, W!Depth
      <3> QED
        BY <3>1, WCallShapes DEF WWaits
    <2>4. WNextInv'
      BY <1>1, <1>3, <1>4, <2>1, <2>2, <2>3 DEF WNextInv, WStateTrue
    <2>5. WLaterInv'
      BY <1>2, <1>3, <1>4 DEF WLaterInv
    <2> QED
      BY <2>4, <2>5
  <1>5. ASSUME WWaits',
               WStateTrue => /\ W!Top'.msgs \in {<<"Inactive">>, <<"Inactive", "Minimized">>} => (state = "Hidden" => ~mapped')
                             /\ W!Top'.msgs = <<"Restored">> => mapped' /\ (state = "Focused" <=> focused'),
               (mapped => mapped') \/ W!Top'.msgs \in {<<"Minimized">>, <<"Minimized", "Inactive">>, <<"Inactive", "Minimized">>}
        PROVE  WNextInv' /\ WLaterInv'
    <2>1. WNextInv'
      BY <1>1, <1>5 DEF WNextInv
    <2>2. WLaterInv'
      BY <1>2, <1>3, <1>5 DEF WLaterInv
    <2> QED
      BY <2>1, <2>2
  <1> QED
    BY <1>4, <1>5

\* A step that is neither about the state nor about the mode of the display.
LEMMA WKept ==
  ASSUME WInv, ~WWaits, WTypeInv', WKeysInv', WNextInv', WLaterInv', WQuiet' => WQuiet,
         WStays' => WStays,
         UNCHANGED <<state, flag, borderless, mode, framed, misled, excuse, mixed>>
  PROVE  WInv'
  <1>1. WModeInv'
    BY DEF WInv, WModeInv
  <1>2. WLingerInv'
    <2>1. W!Sent(<<"Minimized">>).fn = "Sent" /\ W!Sent(<<"Minimized">>).msgs # <<>>
      BY WCallKinds, WListFacts
    <2>2. ~(stack # <<>> /\ W!Top = W!Sent(<<"Minimized">>))
      BY <2>1 DEF WWaits
    <2> QED
      BY <2>2 DEF WInv, WLingerInv
  <1> QED
    BY <1>1, <1>2 DEF WInv

LEMMA WTypeKept ==
  ASSUME stack' \in Seq(WCalls), state' \in W!WindowStates,
         {flag', borderless', open', alive', mapped', focused', framed', misled', mixed'} \subseteq BOOLEAN,
         keys' \in [Keys -> W!KeyStates], mode' \in {"desktop", "full"},
         last' \in [Keys -> {"none", "press", "release", "overtaken", "lost"}],
         excuse' \in {"none", "forced", "stale", "failed"}
  PROVE  WTypeInv'
  <1>1. \A i \in DOMAIN stack' : stack'[i] \in WCalls
    BY LenProperties, ElementOfSeq
  <1>2. \A i \in DOMAIN stack' : stack'[i].fn \in W!Callbacks \cup {"Poll", "Sent", "Sized", "Destroying"}
    BY <1>1, WCallShapes
  <1> QED
    BY <1>2 DEF WTypeInv, W!TypeOK

\* A call that is neither about the state nor into Windows is made or returns.
LEMMA WCallsOnly ==
  ASSUME WInv, ~WWaits,
         NEW calls,
         calls = stack \/ (stack # <<>> /\ calls = W!Below /\ W!Top.fn \notin {"StateTold", "Destroying"}),
         NEW P, (P = {} /\ stack' = calls) \/ \E f \in WCalls : P = {f} /\ stack' = Append(calls, f),
         \A c \in P : c.fn # "Sent",
         WKeysInv', keys' \in [Keys -> W!KeyStates],
         last' \in [Keys -> {"none", "press", "release", "overtaken", "lost"}],
         UNCHANGED <<state, flag, borderless, open, alive, mapped, focused, mode, framed, misled, excuse, mixed>>
  PROVE  WInv'
  <1>1. W!TypeOK /\ stack \in Seq(WCalls) /\ WNextInv /\ WLaterInv
    BY DEF WInv, WTypeInv
  <1>2. calls = stack \/ (stack # <<>> /\ calls = W!Below)
    OBVIOUS
  <1>3. /\ stack' \in Seq(WCalls)
        /\ \A c : W!Inside(c)' <=> c \in W!Range(calls) \/ c \in P
        /\ \A c : c \in W!Range(calls) => W!Inside(c)
        /\ \A c : W!Inside(c) => c \in W!Range(calls) \/ (stack # <<>> /\ calls = W!Below /\ c = W!Top)
        /\ stack' # <<>> => /\ W!Inside(W!Top)'
                            /\ P # {} => W!Top' \in P
                            /\ \A c \in W!Range(W!Below)' : W!Inside(c)
    BY <1>1, <1>2, WMoving
  <1>4. WTypeInv'
    BY <1>1, <1>3, WTypeKept DEF W!TypeOK
  <1>5. \A c : W!Inside(c) => c \in W!Range(calls) \/ c.fn \notin {"StateTold", "Destroying"}
    BY <1>3 DEF W!Inside
  <1>6. (WQuiet' => WQuiet) /\ (WStays' => WStays)
    BY <1>3, <1>5 DEF WQuiet, WStays, W!Inside
  <1>7. stack' # <<>> => W!Top'.fn # "Sent" \/ W!Inside(W!Top')
    BY <1>3 DEF W!Inside
  <1>8. \A c \in W!Range(W!Below)' : stack' # <<>> /\ c.fn = "Sent" => W!Inside(c)
    BY <1>3
  <1>9. UNCHANGED <<mapped, focused>> /\ UNCHANGED <<state, misled>>
    OBVIOUS
  <1>10. WNextInv' /\ WLaterInv'
    BY <1>1, <1>3, <1>6, <1>7, <1>8, <1>9, WNextKept
  <1> QED
    BY <1>4, <1>6, <1>10, WKept

\* A call into Windows is made that tells what has changed.
LEMMA WTells ==
  ASSUME WInv, ~WWaits,
         NEW calls,
         calls = stack \/ (stack # <<>> /\ calls = W!Below /\ W!Top.fn \notin {"StateTold", "Destroying", "DownTold", "UpTold"}),
         NEW l \in WLists \ {<<>>}, stack' = Append(calls, W!Sent(l)),
         {mapped', focused'} \subseteq BOOLEAN,
         l \in {<<"Inactive">>, <<"Inactive", "Minimized">>} => mapped' = mapped \/ ~mapped',
         l = <<"Restored">> => mapped' /\ focused' = focused,
         (mapped => mapped') \/ l \in {<<"Minimized">>, <<"Minimized", "Inactive">>, <<"Inactive", "Minimized">>},
         UNCHANGED <<state, flag, borderless, keys, open, alive, mode, framed, W!history>>
  PROVE  WInv'
  <1>1. W!TypeOK /\ stack \in Seq(WCalls) /\ WNextInv /\ WLaterInv /\ WKeysInv
    BY DEF WInv, WTypeInv
  <1>2. calls = stack \/ (stack # <<>> /\ calls = W!Below)
    OBVIOUS
  <1>3. W!Sent(l) \in WCalls /\ W!Sent(l).fn = "Sent" /\ W!Sent(l).msgs = l
    BY WCallFacts, WCallKinds
  <1> DEFINE P == {W!Sent(l)}
  <1>4. (P = {} /\ stack' = calls) \/ \E f \in WCalls : P = {f} /\ stack' = Append(calls, f)
    BY <1>3
  <1>5. P # {} /\ \A c : c \in P <=> c = W!Sent(l)
    OBVIOUS
  <1> HIDE DEF P
  <1>6. /\ stack' \in Seq(WCalls)
        /\ \A c : W!Inside(c)' <=> c \in W!Range(calls) \/ c = W!Sent(l)
        /\ \A c : c \in W!Range(calls) => W!Inside(c)
        /\ \A c : W!Inside(c) => c \in W!Range(calls) \/ (stack # <<>> /\ calls = W!Below /\ c = W!Top)
        /\ stack' # <<>> => /\ W!Top' = W!Sent(l)
                            /\ \A c \in W!Range(W!Below)' : W!Inside(c)
    BY <1>1, <1>2, <1>4, <1>5, WMoving
  <1>7. stack' # <<>>
    <2>1. calls \in Seq(WCalls)
      BY <1>1, <1>2, WPopping
    <2> QED
      BY <1>3, <2>1, WPushing
  <1>8. UNCHANGED <<last, misled, excuse, mixed>>
    BY DEF W!history
  <1>9. WTypeInv'
    BY <1>1, <1>6, <1>8, WTypeKept DEF W!TypeOK
  <1>10. \A c : W!Inside(c) => c \in W!Range(calls) \/ c.fn \notin {"StateTold", "Destroying", "DownTold", "UpTold"}
    BY <1>6 DEF W!Inside
  <1>11. (WQuiet' => WQuiet) /\ (WStays' => WStays)
    BY <1>6, <1>10 DEF WQuiet, WStays, W!Inside
  <1>12. \A c : (W!Inside(c) <=> W!Inside(c)') \/ c.fn \notin {"DownTold", "UpTold"}
    BY <1>3, <1>6, <1>10
  <1>13. WKeysInv'
    BY <1>1, <1>8, <1>12, WKeysApart
  <1>14. WWaits' /\ W!Top'.msgs = l
    BY <1>3, <1>6, <1>7 DEF WWaits
  <1>15. WStateTrue => /\ W!Top'.msgs \in {<<"Inactive">>, <<"Inactive", "Minimized">>} => (state = "Hidden" => ~mapped')
                       /\ W!Top'.msgs = <<"Restored">> => mapped' /\ (state = "Focused" <=> focused')
    BY <1>14 DEF WStateTrue
  <1>16. (mapped => mapped') \/ W!Top'.msgs \in {<<"Minimized">>, <<"Minimized", "Inactive">>, <<"Inactive", "Minimized">>}
    BY <1>14
  <1>17. \A c \in W!Range(W!Below)' : stack' # <<>> /\ c.fn = "Sent" => W!Inside(c)
    BY <1>6
  <1>18. WNextInv' /\ WLaterInv'
    BY <1>1, <1>6, <1>8, <1>11, <1>14, <1>15, <1>16, <1>17, WNextKept
  <1> QED
    BY <1>8, <1>9, <1>11, <1>13, <1>18, WKept

\* An exception is caught.
LEMMA WThrowInv ==
  ASSUME WInv, ~WWaits, NEW deepest \in 0 .. W!Depth, W!Throw(deepest),
         UNCHANGED <<state, keys, borderless, mapped, focused, misled>>,
         {flag', framed', mixed'} \subseteq BOOLEAN, mode' \in {"desktop", "full"}
  PROVE  WInv'
  <1>1. W!TypeOK /\ stack \in Seq(WCalls) /\ WNextInv /\ WLaterInv /\ WKeysInv
    BY DEF WInv, WTypeInv
  <1>2. W!Depth \in Nat
    BY <1>1, LenProperties DEF W!Depth
  <1>3. PICK d \in {0} \cup {i \in 1 .. deepest : stack[i].fn \in W!Callbacks \cup {"Poll", "Sent"}} :
          /\ stack' = SubSeq(stack, 1, d)
          /\ last' = [k \in Keys |->
                        IF \E i \in d + 1 .. W!Depth : stack[i] \in {W!DownTold(k), W!UpTold(k)}
                        THEN "lost" ELSE last[k]]
          /\ open' = (open /\ \A i \in W!Frames("Destroying") : i <= d)
          /\ alive' \in IF \E i \in W!Frames("Poll") \cup W!Frames("Sent") : i >= d
                       THEN BOOLEAN ELSE {TRUE}
    BY DEF W!Throw
  <1>4. excuse' = "failed" /\ alive' \in BOOLEAN /\ open' \in BOOLEAN
    BY <1>3 DEF W!Throw
  <1>5. d \in 0 .. W!Depth
    BY <1>2, <1>3
  <1>6. /\ stack' \in Seq(WCalls)
        /\ \A c : W!Inside(c)' => W!Inside(c)
        /\ stack' # <<>> => W!Inside(W!Top)' /\ \A c \in W!Range(W!Below)' : W!Inside(c)
    BY <1>1, <1>3, <1>5, WCutting
  <1>7. \A c : W!Inside(c) => W!Inside(c)' \/ \E i \in d + 1 .. W!Depth : stack[i] = c
    BY <1>1, <1>3, <1>5, RangeOfCut, SameRange DEF W!Inside, W!Depth
  <1>8. last' \in [Keys -> {"none", "press", "release", "overtaken", "lost"}]
    BY <1>1, <1>3 DEF W!TypeOK
  <1>9. WTypeInv'
    BY <1>1, <1>4, <1>6, <1>8, WTypeKept DEF W!TypeOK
  <1>10. WKeysInv'
    <2>1. ASSUME NEW k \in Keys, last'[k] # "lost"
          PROVE  last'[k] = last[k] /\ \A f \in {W!DownTold(k), W!UpTold(k)} : W!Inside(f)' <=> W!Inside(f)
      <3>1. last'[k] = last[k] /\ ~\E i \in d + 1 .. W!Depth : stack[i] \in {W!DownTold(k), W!UpTold(k)}
        BY <1>3, <2>1
      <3> QED
        BY <1>6, <1>7, <3>1
    <2> QED
      BY <1>1, <2>1, WKeysKept
  <1>11. WStays' => WStays
    <2>1. open' => open /\ \A i \in d + 1 .. W!Depth : stack[i].fn # "Destroying"
      <3>1. open' => open /\ \A i \in W!Frames("Destroying") : i <= d
        BY <1>3
      <3>2. \A i \in d + 1 .. W!Depth : i \in 1 .. W!Depth /\ ~(i <= d)
        BY <1>2, <1>5
      <3>3. \A i \in d + 1 .. W!Depth : stack[i].fn = "Destroying" => i \in W!Frames("Destroying")
        BY <3>2 DEF W!Frames
      <3> QED
        BY <3>1, <3>2, <3>3
    <2>2. WStays' => \A c : W!Inside(c)' => c.fn # "Destroying"
      BY DEF WStays, W!Inside
    <2>3. WStays' => \A c : W!Inside(c) => c.fn # "Destroying"
      BY <1>7, <2>1, <2>2 DEF WStays
    <2> QED
      BY <2>1, <2>3 DEF WStays, W!Inside
  <1>12. WModeInv' /\ WLingerInv'
    BY <1>4 DEF WModeInv, WLingerInv
  <1>13. WNextInv' /\ WLaterInv'
    <2>1. \A c \in W!Range(W!Below)' : stack' # <<>> /\ c.fn = "Sent" => W!Inside(c)
      BY <1>6
    <2>2. stack' # <<>> => W!Top'.fn # "Sent" \/ W!Inside(W!Top')
      BY <1>6 DEF W!Inside
    <2> QED
      BY <1>1, <1>6, <1>11, <2>1, <2>2, WNextKept
  <1> QED
    BY <1>9, <1>10, <1>12, <1>13 DEF WInv

-------------------------------------------------------------------------------
(* The steps                                                               *)

LEMMA WInitInv ==
  ASSUME W!Init
  PROVE  WInv
  <1>1. WTypeInv
    <2>1. stack \in Seq(WCalls) /\ DOMAIN stack = {}
      BY DEF W!Init
    <2>2. keys \in [Keys -> W!KeyStates] /\ last \in [Keys -> {"none", "press", "release", "overtaken", "lost"}]
      BY DEF W!Init, W!KeyStates
    <2>3. {flag, borderless, open, alive, mapped, focused, framed, misled, mixed} \subseteq BOOLEAN
      BY DEF W!Init
    <2> QED
      BY <2>1, <2>2, <2>3 DEF W!Init, WTypeInv, W!TypeOK, W!WindowStates
  <1>2. WKeysInv /\ WModeInv /\ WLaterInv /\ WLingerInv
    BY DEF W!Init, WKeysInv, WModeInv, WLaterInv, WLingerInv
  <1>3. ~misled => focused = TRUE
    BY DEF W!Init
  <1>4. WNextInv
    BY <1>3 DEF W!Init, WNextInv, WWaits, WStateTrue
  <1> QED
    BY <1>1, <1>2, <1>4 DEF WInv

LEMMA WNoneWaits ==
  /\ W!AppRuns => ~WWaits
  /\ W!MayCall => ~WWaits
  /\ \A fn : fn # "Sent" /\ W!Running(fn) => ~WWaits
  BY DEF W!AppRuns, W!MayCall, W!Running, W!InCallback, W!Callbacks, WWaits

LEMMA WNewLists ==
  /\ {<<"Active">>, <<"Click">>, <<"Inactive">>, <<"Minimized">>, <<"Restored">>,
      <<"Active", "Restored">>, <<"Minimized", "Inactive">>, <<"Inactive", "Minimized">>} \subseteq WLists \ {<<>>}
  /\ <<"Active">> \notin {<<"Inactive">>, <<"Restored">>, <<"Inactive", "Minimized">>}
  /\ <<"Click">> \notin {<<"Inactive">>, <<"Restored">>, <<"Inactive", "Minimized">>}
  /\ <<"Active", "Restored">> \notin {<<"Inactive">>, <<"Restored">>, <<"Inactive", "Minimized">>}
  /\ <<"Restored">> \notin {<<"Inactive">>, <<"Inactive", "Minimized">>}
  /\ <<"Inactive">> # <<"Restored">>
  /\ <<"Restored">> \notin {<<"Minimized">>, <<"Minimized", "Inactive">>, <<"Inactive", "Minimized">>}
  BY WListFacts DEF WLists

\* Nothing is called, or nothing more.
LEMMA WReturns ==
  ASSUME WInv, ~WWaits,
         stack' = stack \/ (stack # <<>> /\ stack' = W!Below /\ W!Top.fn \notin {"StateTold", "Destroying", "DownTold", "UpTold"}),
         UNCHANGED <<state, flag, borderless, keys, open, alive, W!screen, W!history>>
  PROVE  WInv'
  <1>1. W!TypeOK /\ stack \in Seq(WCalls) /\ WKeysInv
    BY DEF WInv, WTypeInv
  <1>2. UNCHANGED <<mapped, focused, mode, framed, last, misled, excuse, mixed>>
    BY DEF W!screen, W!history
  <1>3. keys' \in [Keys -> W!KeyStates] /\ last' \in [Keys -> {"none", "press", "release", "overtaken", "lost"}]
    BY <1>1, <1>2 DEF W!TypeOK
  <1> DEFINE calls == stack'
             P == {}
  <1>4. calls = stack \/ (stack # <<>> /\ calls = W!Below)
    OBVIOUS
  <1>5. /\ \A c : c \in W!Range(calls) => W!Inside(c)
        /\ \A c : W!Inside(c) => c \in W!Range(calls) \/ (stack # <<>> /\ calls = W!Below /\ c = W!Top)
    BY <1>1, <1>4, WPopping
  <1>6. \A c : (W!Inside(c) <=> W!Inside(c)') \/ c.fn \notin {"DownTold", "UpTold"}
    BY <1>5 DEF W!Inside
  <1>7. WKeysInv'
    BY <1>1, <1>2, <1>6, WKeysApart
  <1>8. (P = {} /\ stack' = calls) /\ \A c \in P : c.fn # "Sent"
    OBVIOUS
  <1>9. calls = stack \/ (stack # <<>> /\ calls = W!Below /\ W!Top.fn \notin {"StateTold", "Destroying"})
    OBVIOUS
  <1> HIDE DEF calls, P
  <1> QED
    BY <1>2, <1>3, <1>7, <1>8, <1>9, WCallsOnly

LEMMA WCalling ==
  ASSUME WInv, ~WWaits, NEW f \in WCalls, f.fn \notin {"Sent", "DownTold", "UpTold"},
         stack' = Append(stack, f),
         UNCHANGED <<state, flag, borderless, keys, open, alive, W!screen, W!history>>
  PROVE  WInv'
  <1>1. W!TypeOK /\ stack \in Seq(WCalls) /\ WKeysInv
    BY DEF WInv, WTypeInv
  <1>2. UNCHANGED <<mapped, focused, mode, framed, last, misled, excuse, mixed>>
    BY DEF W!screen, W!history
  <1>3. keys' \in [Keys -> W!KeyStates] /\ last' \in [Keys -> {"none", "press", "release", "overtaken", "lost"}]
    BY <1>1, <1>2 DEF W!TypeOK
  <1>4. W!Range(stack') = W!Range(stack) \cup {f}
    BY <1>1, WPushing
  <1>5. \A c : (W!Inside(c) <=> W!Inside(c)') \/ c.fn \notin {"DownTold", "UpTold"}
    BY <1>4 DEF W!Inside
  <1>6. WKeysInv'
    BY <1>1, <1>2, <1>5, WKeysApart
  <1> DEFINE calls == stack
             P == {f}
  <1>7. (\E c \in WCalls : P = {c} /\ stack' = Append(calls, c)) /\ (\A c \in P : c.fn # "Sent") /\ calls = stack
    OBVIOUS
  <1> HIDE DEF calls, P
  <1> QED
    BY <1>2, <1>3, <1>6, <1>7, WCallsOnly

LEMMA WActivateInv ==
  ASSUME WInv, ~WWaits,
         NEW calls,
         calls = stack \/ (stack # <<>> /\ calls = W!Below /\ W!Top.fn \notin {"StateTold", "Destroying", "DownTold", "UpTold"}),
         W!Activate(calls), UNCHANGED <<state, flag, borderless, keys, open, alive, mapped, mode, framed, W!history>>
  PROVE  WInv'
  <1>1. CASE UNCHANGED focused /\ stack' = calls
    BY <1>1, WReturns DEF W!screen
  <1>2. CASE focused' = TRUE /\ stack' = Append(calls, W!Sent(<<"Active">>))
    <2> DEFINE l == <<"Active">>
    <2>1. l \in WLists \ {<<>>} /\ l \notin {<<"Inactive">>, <<"Restored">>, <<"Inactive", "Minimized">>}
      BY WNewLists
    <2>2. stack' = Append(calls, W!Sent(l)) /\ {mapped', focused'} \subseteq BOOLEAN /\ (mapped => mapped')
      BY <1>2 DEF WInv, WTypeInv, W!TypeOK
    <2> HIDE DEF l
    <2> QED
      BY <2>1, <2>2, WTells
  <1> QED
    BY <1>1, <1>2 DEF W!Activate

LEMMA WIconifyInv ==
  ASSUME WInv, ~WWaits, W!Iconify(stack),
         UNCHANGED <<state, flag, borderless, keys, open, alive, mode, framed, W!history>>
  PROVE  WInv'
  <1>1. PICK l \in W!Orders : stack' = Append(stack, W!Sent(l))
    BY DEF W!Iconify
  <1>2. l \in WLists \ {<<>>} /\ l # <<"Restored">>
          /\ l \in {<<"Minimized">>, <<"Minimized", "Inactive">>, <<"Inactive", "Minimized">>}
    BY WListFacts DEF W!Orders, WLists
  <1>3. mapped' = FALSE /\ focused' = FALSE
    BY DEF W!Iconify
  <1> QED
    BY <1>1, <1>2, <1>3, WTells

LEMMA WRequestInv ==
  ASSUME WInv, W!Request
  PROVE  WInv'
  <1>1. ~WWaits /\ UNCHANGED <<state, flag, borderless, keys, open, alive, mode, framed, W!history>>
    BY WNoneWaits DEF W!Request
  <1>2. CASE W!Activate(stack) /\ UNCHANGED mapped
    <2> DEFINE calls == stack
    <2>1. calls = stack /\ W!Activate(calls)
      BY <1>2
    <2> HIDE DEF calls
    <2> QED
      BY <1>1, <1>2, <2>1, WActivateInv
  <1>3. CASE W!Iconify(stack)
    BY <1>1, <1>3, WIconifyInv
  <1>4. CASE UNCHANGED <<mapped, focused>> /\ stack' = stack
    BY <1>1, <1>4, WReturns DEF W!screen
  <1> QED
    BY <1>2, <1>3, <1>4 DEF W!Request, W!Minimise

LEMMA WCloseInv ==
  ASSUME WInv, W!Close
  PROVE  WInv'
  <1>1. W!TypeOK /\ stack \in Seq(WCalls) /\ WKeysInv /\ WModeInv
    BY DEF WInv, WTypeInv
  <1>2. /\ focused' = FALSE
        /\ UNCHANGED <<state, flag, borderless, keys, open, alive, mapped, mode, framed, last, misled, excuse, mixed>>
    BY DEF W!Close, W!history
  <1>3. W!Destroying \in WCalls /\ W!Destroying.fn = "Destroying" /\ Append(stack, W!Destroying) \in Seq(WCalls)
          /\ W!Range(Append(stack, W!Destroying)) = W!Range(stack) \cup {W!Destroying}
    BY <1>1, WCallFacts, WCallKinds, RangeOfPush, SameRange
  <1>4. W!Sent(<<"Inactive">>) \in WCalls /\ W!Sent(<<"Inactive">>).fn = "Sent"
    BY WNewLists, WCallFacts, WCallKinds
  <1>5. stack' \in Seq(WCalls) /\ \E C \in {{}, {W!Sent(<<"Inactive">>)}} : W!Range(stack') = W!Range(stack) \cup {W!Destroying} \cup C
    <2> DEFINE calls == Append(stack, W!Destroying)
               e == W!Sent(<<"Inactive">>)
    <2>1. calls \in Seq(WCalls) /\ e \in WCalls
      BY <1>3, <1>4
    <2>2. W!Range(calls) = W!Range(stack) \cup {W!Destroying}
      BY <1>3
    <2>3. stack' = calls \o IF focused THEN <<e>> ELSE <<>>
      BY DEF W!Close
    <2> HIDE DEF calls, e
    <2>4. CASE focused
      <3>1. stack' = Append(calls, e)
        BY <2>1, <2>3, <2>4, AppendIsConcat
      <3>2. stack' \in Seq(WCalls) /\ W!Range(stack') = W!Range(calls) \cup {e}
        BY <2>1, <3>1, RangeOfPush, SameRange
      <3> QED
        BY <2>2, <3>2 DEF e
    <2>5. CASE ~focused
      <3>1. stack' = calls
        BY <2>1, <2>3, <2>5, ConcatEmptySeq
      <3> QED
        BY <2>1, <2>2, <3>1
    <2> QED
      BY <2>4, <2>5
  <1>6. ~WStays'
    BY <1>3, <1>5 DEF WStays
  <1>7. WTypeInv'
    BY <1>1, <1>2, <1>5, WTypeKept DEF W!TypeOK
  <1>8. \A c : (W!Inside(c) <=> W!Inside(c)') \/ c.fn \notin {"DownTold", "UpTold"}
    BY <1>3, <1>4, <1>5 DEF W!Inside
  <1>9. WKeysInv'
    BY <1>1, <1>2, <1>8, WKeysApart
  <1>10. WQuiet' => WQuiet
    BY <1>5 DEF WQuiet
  <1>11. WModeInv'
    BY <1>1, <1>2, <1>10 DEF WModeInv
  <1> QED
    BY <1>6, <1>7, <1>9, <1>11, WGone

\* A call is over, and the window is gone or going.
LEMMA WLeavesGone ==
  ASSUME WInv, stack # <<>>, stack' = W!Below, W!Top.fn \notin {"StateTold", "DownTold", "UpTold"},
         ~open', open' \in BOOLEAN,
         UNCHANGED <<state, flag, borderless, keys, alive, W!screen, W!history>>
  PROVE  WInv'
  <1>1. W!TypeOK /\ stack \in Seq(WCalls) /\ WKeysInv /\ WModeInv
    BY DEF WInv, WTypeInv
  <1>2. UNCHANGED <<mapped, focused, mode, framed, last, misled, excuse, mixed>>
    BY DEF W!screen, W!history
  <1> DEFINE calls == stack'
  <1>3. calls = stack \/ (stack # <<>> /\ calls = W!Below)
    OBVIOUS
  <1>4. stack' \in Seq(WCalls) /\ \A c : W!Inside(c) => W!Inside(c)' \/ c = W!Top
    BY <1>1, <1>3, WPopping DEF W!Inside
  <1>5. \A c : W!Inside(c)' => W!Inside(c)
    BY <1>1, <1>3, WPopping DEF W!Inside
  <1>6. WTypeInv'
    BY <1>1, <1>2, <1>4, WTypeKept DEF W!TypeOK
  <1>7. WKeysInv'
    BY <1>1, <1>2, <1>4, <1>5, WKeysApart
  <1>8. WQuiet' => WQuiet
    BY <1>4 DEF WQuiet, W!Inside
  <1>9. WModeInv'
    BY <1>1, <1>2, <1>8 DEF WModeInv
  <1>10. ~WStays'
    BY DEF WStays
  <1> QED
    BY <1>6, <1>7, <1>9, <1>10, WGone

LEMMA WDestroyedInv ==
  ASSUME WInv, W!Destroyed
  PROVE  WInv'
  BY WLeavesGone DEF W!Destroyed, W!Running

LEMMA WSentReturnsInv ==
  ASSUME WInv, W!SentReturns
  PROVE  WInv'
  <1>1. /\ stack # <<>> /\ W!Top.fn = "Sent" /\ (W!Top.msgs = <<>> \/ ~open) /\ stack' = W!Below
        /\ UNCHANGED <<state, flag, borderless, keys, open, alive, W!screen, W!history>>
    BY DEF W!SentReturns, W!Running
  <1>2. CASE W!Top.msgs = <<>>
    BY <1>1, <1>2, WReturns DEF WWaits
  <1>3. CASE ~open
    <2>1. ~open' /\ open' \in BOOLEAN
      BY <1>1, <1>3 DEF WInv, WTypeInv, W!TypeOK
    <2> QED
      BY <1>1, <2>1, WLeavesGone
  <1> QED
    BY <1>1, <1>2, <1>3

LEMMA WPollEventsInv ==
  ASSUME WInv, W!PollEvents
  PROVE  WInv'
  BY WNoneWaits, WCallFacts, WCallKinds, WCalling DEF W!PollEvents

LEMMA WPollReturnsInv ==
  ASSUME WInv, W!PollReturns
  PROVE  WInv'
  <1>1. ~WWaits
    BY WNoneWaits DEF W!PollReturns
  <1> QED
    BY <1>1, WReturns DEF W!PollReturns, W!Running

LEMMA WHandleCloseInv ==
  ASSUME WInv, W!HandleClose
  PROVE  WInv'
  <1>1. ~WWaits
    BY WNoneWaits DEF W!HandleClose
  <1> QED
    BY <1>1, WCallFacts, WCallKinds, WCalling DEF W!HandleClose

LEMMA WUserActsInv ==
  ASSUME WInv, W!UserActs
  PROVE  WInv'
  <1>1. ~WWaits
    BY WNoneWaits DEF W!UserActs
  <1>2. UNCHANGED <<state, flag, borderless, keys, open, alive, mode, framed, W!history>>
    BY DEF W!UserActs
  <1>3. focused \in BOOLEAN /\ mapped \in BOOLEAN
    BY DEF WInv, WTypeInv, W!TypeOK
  <1>4. CASE mapped /\ ~focused /\ focused' = TRUE /\ UNCHANGED mapped
               /\ \E m \in {"Active", "Click"} : stack' = Append(stack, W!Sent(<<m>>))
    <2>1. PICK l \in {<<"Active">>, <<"Click">>} : stack' = Append(stack, W!Sent(l))
      BY <1>4
    <2>2. l \in WLists \ {<<>>} /\ l \notin {<<"Inactive">>, <<"Restored">>, <<"Inactive", "Minimized">>}
      BY WNewLists
    <2> QED
      BY <1>1, <1>2, <1>3, <1>4, <2>1, <2>2, WTells
  <1>5. CASE focused /\ focused' = FALSE /\ UNCHANGED mapped /\ stack' = Append(stack, W!Sent(<<"Inactive">>))
    <2> DEFINE l == <<"Inactive">>
    <2>1. l \in WLists \ {<<>>} /\ l # <<"Restored">> /\ stack' = Append(stack, W!Sent(l))
      BY <1>5, WNewLists
    <2>2. {mapped', focused'} \subseteq BOOLEAN /\ (mapped => mapped') /\ mapped' = mapped
      BY <1>3, <1>5
    <2> HIDE DEF l
    <2> QED
      BY <1>1, <1>2, <2>1, <2>2, WTells
  <1>6. CASE W!Iconify(stack)
    BY <1>1, <1>2, <1>6, WIconifyInv
  <1>7. CASE ~mapped /\ mapped' = TRUE /\ ~focused /\ focused' = TRUE /\ stack' = Append(stack, W!Sent(<<"Active", "Restored">>))
    <2> DEFINE l == <<"Active", "Restored">>
    <2>1. l \in WLists \ {<<>>} /\ l \notin {<<"Inactive">>, <<"Restored">>, <<"Inactive", "Minimized">>} /\ stack' = Append(stack, W!Sent(l))
      BY <1>7, WNewLists
    <2> HIDE DEF l
    <2> QED
      BY <1>1, <1>2, <1>7, <2>1, WTells
  <1>8. CASE ~mapped /\ mapped' = TRUE /\ UNCHANGED focused /\ stack' = Append(stack, W!Sent(<<"Restored">>))
    <2> DEFINE l == <<"Restored">>
    <2>1. l \in WLists \ {<<>>} /\ l \notin {<<"Inactive">>, <<"Inactive", "Minimized">>} /\ stack' = Append(stack, W!Sent(l))
      BY <1>8, WNewLists
    <2>2. {mapped', focused'} \subseteq BOOLEAN /\ mapped' /\ focused' = focused
      BY <1>3, <1>8
    <2> HIDE DEF l
    <2> QED
      BY <1>1, <1>2, <2>1, <2>2, WTells
  <1> QED
    BY <1>4, <1>5, <1>6, <1>7, <1>8 DEF W!UserActs

\* The style of the window, whose calls do not change.
LEMMA WSetBorderlessInv ==
  ASSUME WInv, NEW enabled \in BOOLEAN, W!SetBorderless(enabled)
  PROVE  WInv'
  <1>1. W!TypeOK /\ stack \in Seq(WCalls) /\ WKeysInv /\ WModeInv /\ WNextInv /\ WLaterInv /\ WLingerInv
    BY DEF WInv, WTypeInv
  <1>2. borderless' = enabled /\ framed' = ~enabled /\ mixed' = (mixed \/ flag)
          /\ UNCHANGED <<state, flag, keys, open, stack, alive, mapped, focused, mode, last, misled, excuse>>
    BY DEF W!SetBorderless
  <1>3. mixed' \in BOOLEAN /\ framed' \in BOOLEAN
    BY <1>1, <1>2 DEF W!TypeOK
  <1>4. WTypeInv'
    BY <1>1, <1>2, <1>3, WTypeKept DEF W!TypeOK
  <1>5. \A c : W!Inside(c) <=> W!Inside(c)'
    BY <1>2 DEF W!Inside
  <1>6. WKeysInv'
    BY <1>1, <1>2, <1>5, WKeysApart
  <1>7. (WQuiet' <=> WQuiet) /\ (WStays' <=> WStays) /\ (WWaits' <=> WWaits)
    BY <1>2 DEF WQuiet, WStays, WWaits, W!Top, W!Depth
  <1>8. ~mixed' => ~flag
    BY <1>2
  <1>9. WModeInv'
    BY <1>1, <1>2, <1>7, <1>8 DEF WModeInv
  <1>10. WNextInv' /\ WLaterInv' /\ WLingerInv'
    BY <1>1, <1>2, <1>7 DEF WNextInv, WLaterInv, WLingerInv, WStateTrue, W!Top, W!Below, W!Depth
  <1> QED
    BY <1>4, <1>6, <1>9, <1>10 DEF WInv

LEMMA WSizedReturnsInv ==
  ASSUME WInv, W!SizedReturns
  PROVE  WInv'
  <1>1. ~WWaits /\ stack # <<>> /\ W!Top.fn = "Sized"
    BY WNoneWaits DEF W!SizedReturns, W!Running
  <1>2. UNCHANGED <<state, flag, borderless, keys, mapped, mode, framed, misled, mixed>>
    BY DEF W!SizedReturns
  <1>3. CASE W!Top.ok /\ W!Activate(W!Below) /\ UNCHANGED <<last, excuse, alive, open>>
    <2> DEFINE calls == W!Below
    <2>1. stack # <<>> /\ calls = W!Below /\ W!Top.fn \notin {"StateTold", "Destroying", "DownTold", "UpTold"} /\ W!Activate(calls)
      BY <1>1, <1>3
    <2> HIDE DEF calls
    <2> QED
      BY <1>1, <1>2, <1>3, <2>1, WActivateInv DEF W!history
  <1>4. CASE W!Throw(W!Depth - 1) /\ UNCHANGED focused
    <2>1. W!Depth - 1 \in 0 .. W!Depth
      <3>1. W!Depth \in Nat \ {0}
        BY <1>1, LenProperties, EmptySeq DEF WInv, WTypeInv, W!Depth
      <3> QED
        BY <3>1
    <2>2. {flag', framed', mixed'} \subseteq BOOLEAN /\ mode' \in {"desktop", "full"}
      BY <1>2 DEF WInv, WTypeInv, W!TypeOK
    <2> QED
      BY <1>1, <1>2, <1>4, <2>1, <2>2, WThrowInv
  <1> QED
    BY <1>3, <1>4 DEF W!SizedReturns

LEMMA WHandleMessageInv ==
  ASSUME WInv, W!HandleMessage
  PROVE  WInv'
  <1> DEFINE l == W!Top.msgs
             m == Head(l)
             e == W!Sent(Tail(l))
             calls == Append(W!Below, e)
             new == W!NewState(m)
             low == \E c \in W!Range(W!Below) : c.fn = "Sent" /\ c.msgs # <<>>
  <1>1. W!TypeOK /\ stack \in Seq(WCalls) /\ WKeysInv /\ WModeInv /\ WNextInv /\ WLaterInv /\ WLingerInv
    BY DEF WInv, WTypeInv
  <1>2. stack # <<>> /\ W!Top.fn = "Sent" /\ l # <<>> /\ open /\ W!UpdateWindowState(new, calls)
          /\ UNCHANGED <<flag, borderless, keys, open, alive, mapped, focused, mode, framed, last, excuse, mixed>>
          /\ misled' = CASE m \in {"Active", "Minimized"} -> W!Misleads(m)
                         [] m = "Restored" -> misled
                         [] OTHER -> misled \/ W!Misleads(m)
    BY DEF W!HandleMessage, W!Running, W!screen
  <1>3. WWaits
    BY <1>2 DEF WWaits
  <1>4. W!Top \in WCalls /\ l \in WLists /\ W!Top = W!Sent(l)
    BY <1>1, <1>2, RangeOfPop, SameRange, WCallShapes DEF W!Top, W!Depth
  <1>5. /\ Tail(l) \in WLists
        /\ \/ l = <<"Active">> /\ m = "Active" /\ Tail(l) = <<>>
           \/ l = <<"Click">> /\ m = "Click" /\ Tail(l) = <<>>
           \/ l = <<"Inactive">> /\ m = "Inactive" /\ Tail(l) = <<>>
           \/ l = <<"Minimized">> /\ m = "Minimized" /\ Tail(l) = <<>>
           \/ l = <<"Restored">> /\ m = "Restored" /\ Tail(l) = <<>>
           \/ l = <<"Active", "Restored">> /\ m = "Active" /\ Tail(l) = <<"Restored">>
           \/ l = <<"Minimized", "Inactive">> /\ m = "Minimized" /\ Tail(l) = <<"Inactive">>
           \/ l = <<"Inactive", "Minimized">> /\ m = "Inactive" /\ Tail(l) = <<"Minimized">>
    BY <1>2, <1>4, WListCases
  <1>6. W!Below \in Seq(WCalls) /\ W!Range(stack) = W!Range(W!Below) \cup {W!Top}
    BY <1>1, <1>2, RangeOfPop, SameRange DEF W!Below, W!Top, W!Depth
  <1>7. e \in WCalls /\ e.fn = "Sent" /\ e.msgs = Tail(l)
    BY <1>5, WCallFacts, WCallKinds
  <1>8. calls \in Seq(WCalls) /\ W!Range(calls) = W!Range(W!Below) \cup {e} /\ calls # <<>>
    BY <1>6, <1>7, RangeOfPush, SameRange
  <1>9. low => \E i \in W!Frames("Sent") : i < W!Depth /\ stack[i].msgs # <<>>
    <2> SUFFICES ASSUME NEW c \in W!Range(W!Below), c.fn = "Sent", c.msgs # <<>>
                 PROVE  \E i \in W!Frames("Sent") : i < W!Depth /\ stack[i].msgs # <<>>
      OBVIOUS
    <2>1. W!Depth \in Nat /\ Len(W!Below) = W!Depth - 1 /\ \A i \in 1 .. W!Depth - 1 : W!Below[i] = stack[i]
      BY <1>1, <1>2, RangeOfPop, SameRange, LenProperties DEF W!Below, W!Depth
    <2>2. PICK i \in DOMAIN W!Below : W!Below[i] = c
      BY DEF W!Range
    <2>3. i \in 1 .. W!Depth - 1
      BY <1>6, <2>1, <2>2, LenProperties
    <2>4. i \in 1 .. W!Depth /\ i < W!Depth
      BY <2>1, <2>3
    <2>5. stack[i] = c
      BY <2>1, <2>2, <2>3
    <2> QED
      BY <2>4, <2>5 DEF W!Frames
  <1>10. new \in W!WindowStates /\ state \in W!WindowStates
    BY <1>1 DEF W!TypeOK, W!NewState, W!WindowStates
  <1>11. misled \in BOOLEAN /\ W!Misleads(m) \in BOOLEAN
    BY <1>1 DEF W!TypeOK, W!Misleads
  <1>12. misled' \in BOOLEAN
    BY <1>2, <1>11
  \* What is known when the message is of use.
  <1>13. ~misled' => /\ m = "Active" => mapped /\ focused /\ ~low
                     /\ m # "Click"
                     /\ m = "Inactive" => ~misled /\ ~focused /\ (mapped \/ state = "Hidden") /\ ~low
                     /\ m = "Minimized" => ~mapped /\ ~focused /\ ~low
                     /\ m = "Restored" => ~misled
    BY <1>2, <1>5, <1>9, <1>11 DEF W!Misleads
  <1>14. /\ m = "Active" => new = "Focused"
         /\ m = "Inactive" => new = IF state = "Hidden" THEN "Hidden" ELSE "Visible"
         /\ m = "Minimized" => new = "Hidden"
         /\ m = "Restored" => new = IF state = "Focused" THEN "Focused" ELSE "Visible"
    BY <1>1 DEF W!NewState, W!TypeOK, W!WindowStates
  <1>15. state' = new /\ \/ state # new /\ stack' = Append(calls, W!StateTold(new))
                         \/ state = new /\ stack' = calls
    BY <1>2 DEF W!UpdateWindowState
  <1> DEFINE low2 == W!Sent(<<"Restored">>) \in W!Range(W!Below)
  <1>16. low2 => low
    BY WCallKinds, WListFacts
  <1> HIDE DEF l, m, e, calls, new, low, low2
  <1>17. e = W!Sent(<<"Restored">>) => Tail(l) = <<"Restored">>
    <2>1. W!Sent(<<"Restored">>).msgs = <<"Restored">>
      BY WCallKinds
    <2> QED
      BY <1>7, <2>1
  <1>18. /\ stack' \in Seq(WCalls) /\ stack' # <<>>
         /\ \A c : c.fn \notin {"Sent", "StateTold"} => (W!Inside(c)' <=> W!Inside(c))
         /\ state # new => W!Range(W!Below') = W!Range(W!Below) \cup {e} /\ W!Top'.fn = "StateTold" /\ ~WQuiet'
         /\ state = new => W!Below' = W!Below /\ W!Top' = e /\ (WQuiet' => WQuiet)
         /\ WStays' => WStays
    <2>1. CASE state # new
      <3>1. W!StateTold(new) \in WCalls /\ W!StateTold(new).fn = "StateTold"
        BY <1>10, WCallFacts, WCallKinds
      <3>2. stack' = Append(calls, W!StateTold(new))
        BY <1>15, <2>1
      <3>3. /\ stack' \in Seq(WCalls) /\ stack' # <<>> /\ W!Top' = W!StateTold(new) /\ W!Below' = calls
            /\ W!Range(stack') = W!Range(calls) \cup {W!StateTold(new)}
        BY <1>8, <3>1, <3>2, WPushing
      <3>4. W!Range(stack') = W!Range(W!Below) \cup {e, W!StateTold(new)} /\ W!Range(stack) = W!Range(W!Below) \cup {W!Top}
        BY <1>6, <1>8, <3>3
      <3>5. \A c : c.fn \notin {"Sent", "StateTold"} => (W!Inside(c)' <=> W!Inside(c))
        BY <1>2, <1>7, <3>1, <3>4 DEF W!Inside
      <3>6. WStays' => WStays
        BY <1>2, <3>4 DEF WStays
      <3>7. ~WQuiet'
        BY <3>1, <3>4 DEF WQuiet
      <3> QED
        BY <1>8, <2>1, <3>1, <3>3, <3>5, <3>6, <3>7
    <2>2. CASE state = new
      <3>1. stack' = Append(W!Below, e)
        BY <1>15, <2>2 DEF calls
      <3>2. /\ stack' \in Seq(WCalls) /\ stack' # <<>> /\ W!Top' = e /\ W!Below' = W!Below
            /\ W!Range(stack') = W!Range(W!Below) \cup {e}
        BY <1>6, <1>7, <3>1, WPushing
      <3>3. \A c : c.fn \notin {"Sent", "StateTold"} => (W!Inside(c)' <=> W!Inside(c))
        BY <1>2, <1>6, <1>7, <3>2 DEF W!Inside
      <3>4. WStays' => WStays
        BY <1>2, <1>6, <3>2 DEF WStays
      <3>5. WQuiet' => WQuiet
        BY <1>2, <1>6, <3>2 DEF WQuiet
      <3> QED
        BY <2>2, <3>2, <3>3, <3>4, <3>5
    <2> QED
      BY <2>1, <2>2
  <1>19. WTypeInv'
    BY <1>1, <1>2, <1>10, <1>12, <1>15, <1>18, WTypeKept DEF W!TypeOK
  <1>20. WKeysInv'
    BY <1>1, <1>2, <1>18, WKeysApart
  <1>21. WModeInv'
    BY <1>1, <1>2, <1>15, <1>18 DEF WModeInv
  <1>22. WStays' /\ ~misled' => WStateTrue'
    <2> SUFFICES ASSUME WStays', ~misled'
                 PROVE  WStateTrue'
      OBVIOUS
    <2>1. CASE m = "Active"
      BY <1>2, <1>13, <1>14, <1>15, <2>1 DEF WStateTrue
    <2>2. CASE m = "Minimized"
      BY <1>2, <1>13, <1>14, <1>15, <2>2 DEF WStateTrue
    <2>3. CASE m = "Inactive"
      <3>1. state = "Hidden" => ~mapped
        BY <1>1, <1>3, <1>5, <1>13, <1>18, <2>3 DEF WNextInv, l
      <3> QED
        BY <1>2, <1>13, <1>14, <1>15, <2>3, <3>1 DEF WStateTrue
    <2>4. CASE m = "Restored"
      <3>1. mapped /\ (state = "Focused" <=> focused)
        BY <1>1, <1>3, <1>5, <1>13, <1>18, <2>4 DEF WNextInv, l
      <3> QED
        BY <1>2, <1>13, <1>14, <1>15, <2>4, <3>1 DEF WStateTrue
    <2> QED
      BY <1>5, <1>13, <2>1, <2>2, <2>3, <2>4
  <1>23. WNextInv'
    <2> SUFFICES ASSUME WStays', ~misled'
                 PROVE  IF WWaits'
                        THEN /\ W!Top'.msgs \in {<<"Inactive">>, <<"Inactive", "Minimized">>} => (state' = "Hidden" => ~mapped')
                             /\ W!Top'.msgs = <<"Restored">> => mapped' /\ (state' = "Focused" <=> focused')
                        ELSE WStateTrue'
      BY DEF WNextInv
    <2>1. CASE state # new
      <3>1. ~WWaits'
        BY <1>18, <2>1 DEF WWaits
      <3> QED
        BY <1>22, <2>1, <3>1
    <2>2. CASE state = new
      <3>1. WWaits' <=> Tail(l) # <<>>
        BY <1>7, <1>18, <2>2 DEF WWaits
      <3>2. W!Top'.msgs = Tail(l)
        BY <1>7, <1>18, <2>2
      <3>3. Tail(l) = <<"Restored">> => mapped' /\ (state' = "Focused" <=> focused')
        <4>1. Tail(l) = <<"Restored">> => m = "Active"
          BY <1>5, WListFacts
        <4> QED
          BY <1>2, <1>13, <1>14, <1>15, <4>1
      <3>4. Tail(l) \in {<<"Inactive">>, <<"Inactive", "Minimized">>} => ~mapped'
        <4>1. Tail(l) \in {<<"Inactive">>, <<"Inactive", "Minimized">>} => m = "Minimized"
          BY <1>5, WListFacts
        <4> QED
          BY <1>2, <1>13, <4>1
      <3> QED
        BY <1>22, <3>1, <3>2, <3>3, <3>4
    <2> QED
      BY <2>1, <2>2
  <1>24. WLaterInv'
    <2> SUFFICES ASSUME WStays', ~misled', W!Sent(<<"Restored">>) \in W!Range(W!Below)'
                 PROVE  mapped'
      BY DEF WLaterInv
    <2>1. ~low2 /\ e = W!Sent(<<"Restored">>) => mapped
      <3>1. Tail(l) = <<"Restored">> => m = "Active"
        BY <1>5, WListFacts
      <3> QED
        BY <1>13, <1>17, <3>1
    <2>2. low2 => mapped
      <3>1. low2 => m = "Restored"
        BY <1>5, <1>13, <1>16
      <3>2. m = "Restored" => W!Top.msgs = <<"Restored">>
        BY <1>5 DEF l
      <3>3. <<"Restored">> \notin {<<"Minimized">>, <<"Minimized", "Inactive">>, <<"Inactive", "Minimized">>}
        BY WNewLists
      <3> QED
        BY <1>1, <1>2, <1>13, <1>18, <3>1, <3>2, <3>3 DEF WLaterInv, low2
    <2>3. W!Range(W!Below)' = W!Range(W!Below')
      OBVIOUS
    <2>4. low2 \/ e = W!Sent(<<"Restored">>)
      BY <1>18, <2>3 DEF low2
    <2> QED
      BY <1>2, <2>1, <2>2, <2>4
  <1>25. WLingerInv'
    <2> SUFFICES ASSUME WStays', ~misled', flag', excuse' = "none", WQuiet', state' = "Visible"
                 PROVE  FALSE
      BY DEF WLingerInv
    <2>1. state = new /\ state = "Visible" /\ WQuiet /\ WStays /\ flag /\ excuse = "none"
      BY <1>2, <1>15, <1>18
    <2>2. m \in {"Inactive", "Restored"} /\ ~misled
      BY <1>5, <1>13, <1>14, <2>1
    <2>3. W!Top = W!Sent(<<"Minimized">>)
      BY <1>1, <2>1, <2>2 DEF WLingerInv
    <2>4. l = <<"Minimized">>
      BY <2>3, WCallKinds DEF l
    <2> QED
      BY <1>5, <2>2, <2>4, WListFacts
  <1> QED
    BY <1>19, <1>20, <1>21, <1>23, <1>24, <1>25 DEF WInv

-------------------------------------------------------------------------------
(* Keys                                                                    *)

\* A step that handles a message of a key, or goes on after a callback about it.
LEMMA WKeyStep ==
  ASSUME WInv, ~WWaits, NEW k \in Keys,
         NEW calls,
         calls = stack \/ (stack # <<>> /\ calls = W!Below /\ W!Top \in {W!DownTold(k), W!UpTold(k)}),
         NEW P, (P = {} /\ stack' = calls)
                  \/ \E f \in {W!Told, W!DownTold(k), W!UpTold(k)} : P = {f} /\ stack' = Append(calls, f),
         keys' \in [Keys -> W!KeyStates], last' \in [Keys -> {"none", "press", "release", "overtaken", "lost"}],
         \A j \in Keys \ {k} : keys'[j] = keys[j] /\ last'[j] = last[j],
         last'[k] = "press" =>
           /\ W!UpTold(k) \notin W!Range(calls) \cup P
           /\ keys'[k] \in {"Triggered", "Ongoing"}
           /\ keys'[k] = "Triggered" => W!DownTold(k) \in W!Range(calls) \cup P,
         last'[k] = "release" =>
           /\ keys'[k] \in {"Suppressed", "Inactive"}
           /\ keys'[k] = "Suppressed" => W!UpTold(k) \in W!Range(calls) \cup P,
         UNCHANGED <<state, flag, borderless, open, alive, mapped, focused, mode, framed, misled, excuse, mixed>>
  PROVE  WInv'
  <1>1. W!TypeOK /\ stack \in Seq(WCalls) /\ WKeysInv
    BY DEF WInv, WTypeInv
  <1>2. /\ {W!Told, W!DownTold(k), W!UpTold(k)} \subseteq WCalls
        /\ \A f \in {W!Told, W!DownTold(k), W!UpTold(k)} : f.fn \in {"Told", "DownTold", "UpTold"}
    BY WCallFacts, WCallKinds
  <1>3. \A j \in Keys \ {k} : {W!DownTold(j), W!UpTold(j)} \cap {W!Told, W!DownTold(k), W!UpTold(k)} = {}
    <2> TAKE j \in Keys \ {k}
    <2>1. W!DownTold(j).key = j /\ W!UpTold(j).key = j /\ W!DownTold(k).key = k /\ W!UpTold(k).key = k /\ j # k
      BY WCallKinds
    <2>2. W!DownTold(j).fn = "DownTold" /\ W!UpTold(j).fn = "UpTold" /\ W!Told.fn = "Told"
      BY WCallKinds
    <2> QED
      BY <2>1, <2>2
  <1>4. P \subseteq {W!Told, W!DownTold(k), W!UpTold(k)}
    OBVIOUS
  <1>5. calls = stack \/ (stack # <<>> /\ calls = W!Below)
    OBVIOUS
  <1>6. (P = {} /\ stack' = calls) \/ \E f \in WCalls : P = {f} /\ stack' = Append(calls, f)
    BY <1>2
  <1>7. /\ \A c : W!Inside(c)' <=> c \in W!Range(calls) \/ c \in P
        /\ \A c : c \in W!Range(calls) => W!Inside(c)
        /\ \A c : W!Inside(c) => c \in W!Range(calls) \/ (stack # <<>> /\ calls = W!Below /\ c = W!Top)
    BY <1>1, <1>5, <1>6, WMoving
  <1>8. calls = stack \/ (stack # <<>> /\ calls = W!Below /\ W!Top.fn \notin {"StateTold", "Destroying"})
    BY <1>2
  <1>9. \A c : c \notin {W!Told, W!DownTold(k), W!UpTold(k)} => (W!Inside(c)' <=> W!Inside(c))
    <2>1. stack # <<>> /\ calls = W!Below => calls = stack \/ W!Top \in {W!DownTold(k), W!UpTold(k)}
      OBVIOUS
    <2> QED
      BY <1>4, <1>7, <2>1 DEF W!Inside
  <1>10. WKeysInv'
    <2> SUFFICES ASSUME NEW j \in Keys
                 PROVE  /\ last'[j] = "press" =>
                             /\ ~W!Inside(W!UpTold(j))'
                             /\ keys'[j] \in {"Triggered", "Ongoing"}
                             /\ keys'[j] = "Triggered" => W!Inside(W!DownTold(j))'
                        /\ last'[j] = "release" =>
                             /\ keys'[j] \in {"Suppressed", "Inactive"}
                             /\ keys'[j] = "Suppressed" => W!Inside(W!UpTold(j))'
      BY DEF WKeysInv, W!Inside
    <2>1. CASE j = k
      BY <1>7, <2>1
    <2>2. CASE j # k
      BY <1>1, <1>3, <1>9, <2>2 DEF WKeysInv
    <2> QED
      BY <2>1, <2>2
  <1>11. \A c \in P : c.fn # "Sent"
    BY <1>2, <1>4
  <1> QED
    BY <1>6, <1>8, <1>10, <1>11, WCallsOnly

LEMMA WKeyDownInv ==
  ASSUME WInv, ~WWaits, NEW k \in Keys, W!KeyDown(k), NEW calls, calls = stack,
         last' \in [Keys -> {"none", "press", "release", "overtaken", "lost"}],
         \A j \in Keys \ {k} : last'[j] = last[j],
         last'[k] # "release", last'[k] = "press" => W!UpTold(k) \notin W!Range(calls),
         UNCHANGED <<state, flag, borderless, open, alive, mapped, focused, mode, framed, misled, excuse, mixed>>
  PROVE  WInv'
  <1>1. keys \in [Keys -> W!KeyStates]
    BY DEF WInv, WTypeInv, W!TypeOK
  <1>2. W!UpTold(k) # W!DownTold(k) /\ W!UpTold(k) # W!Told
    <2>1. W!UpTold(k).fn = "UpTold" /\ W!DownTold(k).fn = "DownTold" /\ W!Told.fn = "Told"
      BY WCallKinds
    <2> QED
      BY <2>1
  <1>3. CASE keys[k] \in {"Inactive", "Suppressed"}
    <2>1. keys' = [keys EXCEPT ![k] = "Triggered"] /\ stack' = Append(calls, W!DownTold(k))
      BY <1>3 DEF W!KeyDown
    <2>2. keys' \in [Keys -> W!KeyStates] /\ keys'[k] = "Triggered" /\ \A j \in Keys \ {k} : keys'[j] = keys[j]
      BY <1>1, <2>1 DEF W!KeyStates
    <2> DEFINE P == {W!DownTold(k)}
    <2>3. \E f \in {W!Told, W!DownTold(k), W!UpTold(k)} : P = {f} /\ stack' = Append(calls, f)
      BY <2>1
    <2>4. last'[k] = "press" => W!UpTold(k) \notin W!Range(calls) \cup P /\ W!DownTold(k) \in W!Range(calls) \cup P
      BY <1>2
    <2> HIDE DEF P
    <2>5. last'[k] = "press" =>
            /\ W!UpTold(k) \notin W!Range(calls) \cup P
            /\ keys'[k] \in {"Triggered", "Ongoing"}
            /\ keys'[k] = "Triggered" => W!DownTold(k) \in W!Range(calls) \cup P
      BY <2>2, <2>4
    <2>6. last'[k] = "release" =>
            /\ keys'[k] \in {"Suppressed", "Inactive"}
            /\ keys'[k] = "Suppressed" => W!UpTold(k) \in W!Range(calls) \cup P
      OBVIOUS
    <2> QED
      BY <2>2, <2>3, <2>5, <2>6, WKeyStep
  <1>4. CASE keys[k] \in {"Triggered", "Ongoing"}
    <2>1. keys' = [keys EXCEPT ![k] = IF @ = "Triggered" THEN "Ongoing" ELSE @] /\ stack' = Append(calls, W!Told)
      BY <1>4 DEF W!KeyDown, W!KeyDownRest
    <2>2. keys' \in [Keys -> W!KeyStates] /\ keys'[k] = "Ongoing" /\ \A j \in Keys \ {k} : keys'[j] = keys[j]
      BY <1>1, <1>4, <2>1 DEF W!KeyStates
    <2> DEFINE P == {W!Told}
    <2>3. \E f \in {W!Told, W!DownTold(k), W!UpTold(k)} : P = {f} /\ stack' = Append(calls, f)
      BY <2>1
    <2>4. last'[k] = "press" => W!UpTold(k) \notin W!Range(calls) \cup P
      BY <1>2
    <2> HIDE DEF P
    <2>5. last'[k] = "press" =>
            /\ W!UpTold(k) \notin W!Range(calls) \cup P
            /\ keys'[k] \in {"Triggered", "Ongoing"}
            /\ keys'[k] = "Triggered" => W!DownTold(k) \in W!Range(calls) \cup P
      BY <2>2, <2>4
    <2>6. last'[k] = "release" =>
            /\ keys'[k] \in {"Suppressed", "Inactive"}
            /\ keys'[k] = "Suppressed" => W!UpTold(k) \in W!Range(calls) \cup P
      OBVIOUS
    <2> QED
      BY <2>2, <2>3, <2>5, <2>6, WKeyStep
  <1> QED
    BY <1>1, <1>3, <1>4 DEF W!KeyStates

\* handle_virtual_key_up, from the window procedure or from itself.
LEMMA WKeyUpInv ==
  ASSUME WInv, ~WWaits, NEW k \in Keys,
         NEW calls,
         calls = stack \/ (stack # <<>> /\ calls = W!Below /\ W!Top \in {W!DownTold(k), W!UpTold(k)}),
         W!KeyUp(k, calls), last' \in [Keys -> {"none", "press", "release", "overtaken", "lost"}],
         \A j \in Keys \ {k} : last'[j] = last[j], last'[k] # "press",
         UNCHANGED <<state, flag, borderless, open, alive, mapped, focused, mode, framed, misled, excuse, mixed>>
  PROVE  WInv'
  <1>1. keys \in [Keys -> W!KeyStates]
    BY DEF WInv, WTypeInv, W!TypeOK
  <1>2. CASE keys[k] \in {"Ongoing", "Triggered"}
    <2>1. keys' = [keys EXCEPT ![k] = "Suppressed"] /\ stack' = Append(calls, W!UpTold(k))
      BY <1>2 DEF W!KeyUp
    <2>2. keys' \in [Keys -> W!KeyStates] /\ keys'[k] = "Suppressed" /\ \A j \in Keys \ {k} : keys'[j] = keys[j]
      BY <1>1, <2>1 DEF W!KeyStates
    <2> DEFINE P == {W!UpTold(k)}
    <2>3. \E f \in {W!Told, W!DownTold(k), W!UpTold(k)} : P = {f} /\ stack' = Append(calls, f)
      BY <2>1
    <2>4. W!UpTold(k) \in W!Range(calls) \cup P
      OBVIOUS
    <2> HIDE DEF P
    <2> QED
      BY <2>2, <2>3, <2>4, WKeyStep
  <1>3. CASE keys[k] = "Suppressed"
    <2>1. keys' = [keys EXCEPT ![k] = "Inactive"] /\ stack' = Append(calls, W!Told)
      BY <1>3 DEF W!KeyUp
    <2>2. keys' \in [Keys -> W!KeyStates] /\ keys'[k] = "Inactive" /\ \A j \in Keys \ {k} : keys'[j] = keys[j]
      BY <1>1, <2>1 DEF W!KeyStates
    <2> DEFINE P == {W!Told}
    <2>3. \E f \in {W!Told, W!DownTold(k), W!UpTold(k)} : P = {f} /\ stack' = Append(calls, f)
      BY <2>1
    <2> HIDE DEF P
    <2> QED
      BY <2>2, <2>3, WKeyStep
  <1>4. CASE keys[k] = "Inactive"
    <2>1. keys' = keys /\ stack' = calls
      BY <1>4 DEF W!KeyUp
    <2>2. keys' \in [Keys -> W!KeyStates] /\ keys'[k] = "Inactive" /\ \A j \in Keys \ {k} : keys'[j] = keys[j]
      BY <1>1, <1>4, <2>1
    <2> DEFINE P == {}
    <2>3. P = {} /\ stack' = calls
      BY <2>1
    <2> HIDE DEF P
    <2> QED
      BY <2>2, <2>3, WKeyStep
  <1> QED
    BY <1>1, <1>2, <1>3, <1>4 DEF W!KeyStates

LEMMA WHandleKeyInv ==
  ASSUME WInv, NEW k \in Keys, W!HandleKey(k)
  PROVE  WInv'
  <1>1. ~WWaits
    BY WNoneWaits DEF W!HandleKey
  <1>2. UNCHANGED <<state, flag, borderless, open, alive, mapped, focused, mode, framed, misled, excuse, mixed>>
    BY DEF W!HandleKey, W!screen
  <1>3. CASE W!KeyDown(k) /\ last' = [last EXCEPT ![k] = IF W!Inside(W!UpTold(k)) THEN "overtaken" ELSE "press"]
    <2>1. last' \in [Keys -> {"none", "press", "release", "overtaken", "lost"}] /\ last'[k] # "release"
            /\ \A j \in Keys \ {k} : last'[j] = last[j]
      BY <1>3 DEF WInv, WTypeInv, W!TypeOK
    <2>2. last'[k] = "press" => W!UpTold(k) \notin W!Range(stack)
      BY <1>3 DEF WInv, WTypeInv, W!TypeOK, W!Inside
    <2> DEFINE calls == stack
    <2>3. calls = stack /\ (last'[k] = "press" => W!UpTold(k) \notin W!Range(calls)) /\ W!KeyDown(k)
      BY <1>3, <2>2
    <2> HIDE DEF calls
    <2> QED
      BY <1>1, <1>2, <2>1, <2>3, WKeyDownInv
  <1>4. CASE W!KeyUp(k, stack) /\ last' = [last EXCEPT ![k] = "release"]
    <2>1. last' \in [Keys -> {"none", "press", "release", "overtaken", "lost"}] /\ last'[k] # "press"
            /\ \A j \in Keys \ {k} : last'[j] = last[j]
      BY <1>4 DEF WInv, WTypeInv, W!TypeOK
    <2> QED
      BY <1>1, <1>2, <1>4, <2>1, WKeyUpInv
  <1> QED
    BY <1>3, <1>4 DEF W!HandleKey

LEMMA WKeyCallbackReturnsInv ==
  ASSUME WInv, W!KeyCallbackReturns
  PROVE  WInv'
  <1>1. stack # <<>> /\ W!TypeOK /\ stack \in Seq(WCalls) /\ WKeysInv /\ ~WWaits
    BY DEF W!KeyCallbackReturns, W!InCallback, W!Callbacks, WWaits, WInv, WTypeInv
  <1>2. UNCHANGED <<state, flag, borderless, open, alive, mapped, focused, mode, framed, last, misled, excuse, mixed>>
    BY DEF W!KeyCallbackReturns, W!screen, W!history
  <1>3. last' \in [Keys -> {"none", "press", "release", "overtaken", "lost"}] /\ keys \in [Keys -> W!KeyStates]
    BY <1>1, <1>2 DEF W!TypeOK
  <1>4. \A c : W!Inside(c) <=> c \in W!Range(W!Below) \/ c = W!Top
    BY <1>1, RangeOfPop, SameRange DEF W!Below, W!Top, W!Depth, W!Inside
  <1>5. ASSUME NEW k \in Keys, W!Top = W!DownTold(k), W!KeyDownRest(k, W!Below)
        PROVE  WInv'
    <2>1. keys' = [keys EXCEPT ![k] = IF @ = "Triggered" THEN "Ongoing" ELSE @] /\ stack' = Append(W!Below, W!Told)
      BY <1>5 DEF W!KeyDownRest
    <2>2. keys' \in [Keys -> W!KeyStates] /\ \A j \in Keys \ {k} : keys'[j] = keys[j]
      BY <1>3, <2>1 DEF W!KeyStates
    <2>3. keys'[k] = IF keys[k] = "Triggered" THEN "Ongoing" ELSE keys[k]
      BY <1>3, <2>1
    <2> DEFINE P == {W!Told}
    <2>4. \E f \in {W!Told, W!DownTold(k), W!UpTold(k)} : P = {f} /\ stack' = Append(W!Below, f)
      BY <2>1
    <2>5. W!UpTold(k) # W!DownTold(k) /\ W!UpTold(k) # W!Told
      <3>1. W!UpTold(k).fn = "UpTold" /\ W!DownTold(k).fn = "DownTold" /\ W!Told.fn = "Told"
        BY WCallKinds
      <3> QED
        BY <3>1
    <2>6. W!UpTold(k) \in W!Range(W!Below) \cup P <=> W!Inside(W!UpTold(k))
      BY <1>4, <1>5, <2>5
    <2> HIDE DEF P
    <2>7. last'[k] = "press" => W!UpTold(k) \notin W!Range(W!Below) \cup P /\ keys'[k] = "Ongoing"
      BY <1>1, <1>2, <2>3, <2>6 DEF WKeysInv
    <2>8. last'[k] = "release" => /\ keys'[k] \in {"Suppressed", "Inactive"}
                                  /\ keys'[k] = "Suppressed" => W!UpTold(k) \in W!Range(W!Below) \cup P
      BY <1>1, <1>2, <2>3, <2>6 DEF WKeysInv
    <2> QED
      BY <1>1, <1>2, <1>3, <1>5, <2>2, <2>4, <2>7, <2>8, WKeyStep
  <1>6. ASSUME NEW k \in Keys, W!Top = W!UpTold(k), W!KeyUp(k, W!Below)
        PROVE  WInv'
    <2>1. last'[k] # "press"
      BY <1>1, <1>2, <1>4, <1>6 DEF WKeysInv
    <2> QED
      BY <1>1, <1>2, <1>3, <1>6, <2>1, WKeyUpInv
  <1>7. ASSUME W!Top = W!Told, stack' = W!Below, UNCHANGED keys
        PROVE  WInv'
    <2>1. W!Top.fn \notin {"StateTold", "Destroying", "DownTold", "UpTold"}
      BY <1>7, WCallKinds
    <2> QED
      BY <1>1, <1>2, <1>7, <2>1, WReturns DEF W!screen, W!history
  <1> QED
    BY <1>5, <1>6, <1>7 DEF W!KeyCallbackReturns

-------------------------------------------------------------------------------
(* The mode of the display                                                 *)

\* A call into Windows is made that tells what has changed, or nothing has.
WAnnounces(calls) ==
  \/ stack' = calls /\ UNCHANGED <<mapped, focused>>
  \/ \E l \in WLists \ {<<>>} :
       /\ stack' = Append(calls, W!Sent(l))
       /\ {mapped', focused'} \subseteq BOOLEAN
       /\ l \in {<<"Inactive">>, <<"Inactive", "Minimized">>} => mapped' = mapped \/ ~mapped'
       /\ l = <<"Restored">> => mapped' /\ focused' = focused
       /\ (mapped => mapped') \/ l \in {<<"Minimized">>, <<"Minimized", "Inactive">>, <<"Inactive", "Minimized">>}

\* A handler that may set the display's mode has called into Windows, or has not.
LEMMA WSwitchKept ==
  ASSUME WInv, ~WWaits,
         NEW calls, calls = stack \/ (stack # <<>> /\ calls = W!Below /\ W!Top.fn = "StateTold"),
         NEW low \in Seq(WCalls), \A c \in W!Range(calls) : c \in W!Range(low),
         \A c \in W!Range(low) : c \in W!Range(calls) \/ c.fn = "Sized",
         WAnnounces(low),
         UNCHANGED <<state, borderless, keys, open, alive, last, misled>>,
         {flag', framed', mixed'} \subseteq BOOLEAN, mode' \in {"desktop", "full"},
         excuse' \in {"none", "forced", "stale", "failed"}
  PROVE  WTypeInv' /\ WKeysInv' /\ WNextInv' /\ WLaterInv' /\ (WStays' => WStays)
  <1>1. W!TypeOK /\ stack \in Seq(WCalls) /\ WNextInv /\ WLaterInv /\ WKeysInv
    BY DEF WInv, WTypeInv
  <1>2. calls = stack \/ (stack # <<>> /\ calls = W!Below)
    OBVIOUS
  <1>3. /\ \A c : c \in W!Range(calls) => W!Inside(c)
        /\ \A c : W!Inside(c) => c \in W!Range(calls) \/ (stack # <<>> /\ calls = W!Below /\ c = W!Top)
    BY <1>1, <1>2, WPopping
  <1>4. \A c : W!Inside(c) => c \in W!Range(low) \/ c.fn = "StateTold"
    BY <1>3 DEF W!Inside
  <1>5. \A c : c \in W!Range(low) => W!Inside(c) \/ c.fn = "Sized"
    BY <1>3
  <1>6. CASE stack' = low /\ UNCHANGED <<mapped, focused>>
    <2>1. stack' \in Seq(WCalls) /\ (stack' # <<>> => W!Range(stack') = W!Range(W!Below)' \cup {W!Top'})
      BY <1>6, RangeOfPop, SameRange DEF W!Below, W!Top, W!Depth
    <2>2. WTypeInv'
      BY <1>1, <1>6, <2>1, WTypeKept DEF W!TypeOK
    <2>3. \A c : (W!Inside(c) <=> W!Inside(c)') \/ c.fn \notin {"DownTold", "UpTold"}
      BY <1>4, <1>5, <1>6 DEF W!Inside
    <2>4. WKeysInv'
      BY <1>1, <2>3, WKeysApart
    <2>5. WStays' => WStays
      BY <1>4, <1>6 DEF WStays, W!Inside
    <2>6. \A c \in W!Range(W!Below)' : stack' # <<>> /\ c.fn = "Sent" => W!Inside(c)
      BY <1>5, <1>6, <2>1
    <2>7. stack' # <<>> => W!Top'.fn # "Sent" \/ W!Inside(W!Top')
      BY <1>5, <1>6, <2>1 DEF W!Inside
    <2>8. UNCHANGED <<state, misled>> /\ UNCHANGED <<mapped, focused>>
      BY <1>6
    <2>9. WNextInv' /\ WLaterInv'
      BY <1>1, <2>1, <2>5, <2>6, <2>7, <2>8, WNextKept
    <2> QED
      BY <2>2, <2>4, <2>5, <2>9
  <1>7. ASSUME NEW l \in WLists \ {<<>>}, stack' = Append(low, W!Sent(l)), {mapped', focused'} \subseteq BOOLEAN,
               l \in {<<"Inactive">>, <<"Inactive", "Minimized">>} => mapped' = mapped \/ ~mapped',
               l = <<"Restored">> => mapped' /\ focused' = focused,
               (mapped => mapped') \/ l \in {<<"Minimized">>, <<"Minimized", "Inactive">>, <<"Inactive", "Minimized">>}
        PROVE  WTypeInv' /\ WKeysInv' /\ WNextInv' /\ WLaterInv' /\ (WStays' => WStays)
    <2>1. W!Sent(l) \in WCalls /\ W!Sent(l).fn = "Sent" /\ W!Sent(l).msgs = l
      BY WCallFacts, WCallKinds
    <2>2. /\ stack' \in Seq(WCalls) /\ stack' # <<>> /\ W!Top' = W!Sent(l) /\ W!Below' = low
          /\ W!Range(stack') = W!Range(low) \cup {W!Sent(l)}
      BY <1>7, <2>1, WPushing
    <2>3. WTypeInv'
      BY <1>1, <1>7, <2>2, WTypeKept DEF W!TypeOK
    <2>4. \A c : (W!Inside(c) <=> W!Inside(c)') \/ c.fn \notin {"DownTold", "UpTold"}
      BY <1>4, <1>5, <2>1, <2>2 DEF W!Inside
    <2>5. WKeysInv'
      BY <1>1, <2>4, WKeysApart
    <2>6. WStays' => WStays
      BY <1>4, <2>2 DEF WStays, W!Inside
    <2>7. \A c \in W!Range(W!Below)' : stack' # <<>> /\ c.fn = "Sent" => W!Inside(c)
      BY <1>5, <2>2
    <2>8. WWaits' /\ W!Top'.msgs = l
      BY <2>1, <2>2 DEF WWaits
    <2>9. WStateTrue => /\ W!Top'.msgs \in {<<"Inactive">>, <<"Inactive", "Minimized">>} => (state = "Hidden" => ~mapped')
                        /\ W!Top'.msgs = <<"Restored">> => mapped' /\ (state = "Focused" <=> focused')
      BY <1>7, <2>8 DEF WStateTrue
    <2>10. (mapped => mapped') \/ W!Top'.msgs \in {<<"Minimized">>, <<"Minimized", "Inactive">>, <<"Inactive", "Minimized">>}
      BY <1>7, <2>8
    <2>11. UNCHANGED <<state, misled>>
      OBVIOUS
    <2>12. WNextInv' /\ WLaterInv'
      BY <1>1, <2>2, <2>6, <2>7, <2>8, <2>9, <2>10, <2>11, WNextKept
    <2> QED
      BY <2>3, <2>5, <2>6, <2>12
  <1> QED
    BY <1>6, <1>7 DEF WAnnounces

\* handle_window_fullscreen_: with no excuse the window is the one in focus.
LEMMA WFullscreenInv ==
  ASSUME WInv, ~WWaits,
         NEW calls, calls = stack \/ (stack # <<>> /\ calls = W!Below /\ W!Top.fn = "StateTold"),
         NEW why \in {"none", "forced", "stale"}, why = "none" => state = "Focused",
         W!HandleWindowFullscreen(calls, why), flag' = TRUE, mixed' = (mixed \/ borderless),
         UNCHANGED <<state, borderless, keys, misled>>
  PROVE  WInv'
  <1>1. W!TypeOK /\ stack \in Seq(WCalls)
    BY DEF WInv, WTypeInv
  <1>2. calls = stack \/ (stack # <<>> /\ calls = W!Below)
    OBVIOUS
  <1>3. calls \in Seq(WCalls)
    BY <1>1, <1>2, WPopping
  <1>4. framed' = FALSE /\ UNCHANGED <<mapped, focused>> /\ mixed' \in BOOLEAN
    BY <1>1 DEF W!HandleWindowFullscreen, W!TypeOK
  <1>5. ASSUME NEW ok \in BOOLEAN, NEW msgs \in {<<>>, <<"Restored">>},
               msgs = <<>> \/ (mapped /\ open),
               mode' = IF ok THEN "full" ELSE mode, excuse' = IF ok THEN why ELSE "failed",
               stack' = W!Sending(Append(calls, W!Sized(ok)), msgs), UNCHANGED <<last, alive, open>>
        PROVE  WInv'
    <2> DEFINE low == Append(calls, W!Sized(ok))
    <2>1. W!Sized(ok) \in WCalls /\ W!Sized(ok).fn = "Sized"
      BY WCallFacts, WCallKinds
    <2>2. low \in Seq(WCalls) /\ W!Range(low) = W!Range(calls) \cup {W!Sized(ok)}
      BY <1>3, <2>1, RangeOfPush, SameRange
    <2>3. \/ msgs = <<>> /\ stack' = low
          \/ msgs = <<"Restored">> /\ stack' = Append(low, W!Sent(<<"Restored">>)) /\ mapped
      BY <1>5 DEF W!Sending
    <2> HIDE DEF low
    <2>4. (\A c \in W!Range(calls) : c \in W!Range(low)) /\ \A c \in W!Range(low) : c \in W!Range(calls) \/ c.fn = "Sized"
      BY <2>1, <2>2
    <2>5. WAnnounces(low)
      <3>1. {mapped', focused'} \subseteq BOOLEAN
        BY <1>1, <1>4 DEF W!TypeOK
      <3>2. <<"Restored">> \in WLists \ {<<>>}
        BY WNewLists
      <3> QED
        BY <1>4, <2>3, <3>1, <3>2 DEF WAnnounces
    <2>6. {flag', framed', mixed'} \subseteq BOOLEAN /\ mode' \in {"desktop", "full"}
            /\ excuse' \in {"none", "forced", "stale", "failed"}
      BY <1>1, <1>4, <1>5 DEF W!TypeOK
    <2>7. UNCHANGED <<state, borderless, keys, open, alive, last, misled>>
      BY <1>5
    <2>8. WTypeInv' /\ WKeysInv' /\ WNextInv' /\ WLaterInv'
      BY <2>2, <2>4, <2>5, <2>6, <2>7, WSwitchKept
    <2>9. excuse' = "none" => mode' = "full" /\ state' = "Focused"
      BY <1>5
    <2>10. WModeInv' /\ WLingerInv'
      BY <1>4, <2>9 DEF WModeInv, WLingerInv
    <2> QED
      BY <2>8, <2>10 DEF WInv
  <1>6. CASE W!Throw(Len(calls)) /\ UNCHANGED mode
    <2>1. Len(calls) \in 0 .. W!Depth
      <3>1. stack # <<>> => Len(W!Below) = Len(stack) - 1 /\ W!Below \in Seq(WCalls)
        BY <1>1, RangeOfPop, SameRange DEF W!Below, W!Depth
      <3>2. Len(stack) \in Nat /\ Len(calls) \in Nat
        BY <1>1, <1>3, LenProperties
      <3> QED
        BY <3>1, <3>2 DEF W!Depth
    <2>2. {flag', framed', mixed'} \subseteq BOOLEAN /\ mode' \in {"desktop", "full"}
      BY <1>1, <1>4, <1>6 DEF W!TypeOK
    <2> QED
      BY <1>4, <1>6, <2>1, <2>2, WThrowInv
  <1>7. \/ \E ok \in BOOLEAN : \E msgs \in {<<>>, <<"Restored">>} :
             /\ msgs = <<>> \/ (mapped /\ open)
             /\ mode' = IF ok THEN "full" ELSE mode
             /\ excuse' = IF ok THEN why ELSE "failed"
             /\ stack' = W!Sending(Append(calls, W!Sized(ok)), msgs)
             /\ UNCHANGED <<last, alive, open>>
        \/ W!Throw(Len(calls)) /\ UNCHANGED mode
    BY DEF W!HandleWindowFullscreen
  <1> QED
    BY <1>5, <1>6, <1>7

\* handle_window_restore_: what comes after it sees to that nothing lingers.
LEMMA WRestoreInv ==
  ASSUME WInv, ~WWaits,
         NEW calls, calls = stack \/ (stack # <<>> /\ calls = W!Below /\ W!Top.fn = "StateTold"),
         NEW why \in {"none", "forced", "stale"},
         why = "none" => ~(flag' /\ state = "Focused"),
         framed' = TRUE, flag' \in BOOLEAN, mixed' = (mixed \/ borderless),
         \/ /\ mode' = "desktop" /\ excuse' = why /\ UNCHANGED <<last, alive, open>>
            /\ WAnnounces(calls)
            /\ flag' /\ WStays /\ ~misled /\ state = "Visible" => stack' # <<>> /\ W!Top' = W!Sent(<<"Minimized">>)
         \/ W!Throw(Len(calls)) /\ UNCHANGED <<mode, mapped, focused>>,
         UNCHANGED <<state, borderless, keys, misled>>
  PROVE  WInv'
  <1>1. W!TypeOK /\ stack \in Seq(WCalls)
    BY DEF WInv, WTypeInv
  <1>2. calls = stack \/ (stack # <<>> /\ calls = W!Below)
    OBVIOUS
  <1>3. calls \in Seq(WCalls)
    BY <1>1, <1>2, WPopping
  <1>4. framed' = TRUE /\ mixed' \in BOOLEAN
    BY <1>1 DEF W!TypeOK
  <1>5. CASE /\ mode' = "desktop" /\ excuse' = why /\ UNCHANGED <<last, alive, open>>
             /\ WAnnounces(calls)
             /\ flag' /\ WStays /\ ~misled /\ state = "Visible" => stack' # <<>> /\ W!Top' = W!Sent(<<"Minimized">>)
    <2>1. {flag', framed', mixed'} \subseteq BOOLEAN /\ mode' \in {"desktop", "full"}
            /\ excuse' \in {"none", "forced", "stale", "failed"}
      BY <1>1, <1>4, <1>5
    <2>2. UNCHANGED <<state, borderless, keys, open, alive, last, misled>>
      BY <1>5
    <2>3. (\A c \in W!Range(calls) : c \in W!Range(calls)) /\ \A c \in W!Range(calls) : c \in W!Range(calls) \/ c.fn = "Sized"
      OBVIOUS
    <2>4. WTypeInv' /\ WKeysInv' /\ WNextInv' /\ WLaterInv' /\ (WStays' => WStays)
      BY <1>3, <1>5, <2>1, <2>2, <2>3, WSwitchKept
    <2>5. WModeInv'
      BY <1>1, <1>4, <1>5 DEF WModeInv, W!TypeOK
    <2>6. WLingerInv'
      BY <1>5, <2>4 DEF WLingerInv
    <2> QED
      BY <2>4, <2>5, <2>6 DEF WInv
  <1>6. CASE W!Throw(Len(calls)) /\ UNCHANGED <<mode, mapped, focused>>
    <2>1. Len(calls) \in 0 .. W!Depth
      <3>1. stack # <<>> => Len(W!Below) = Len(stack) - 1 /\ W!Below \in Seq(WCalls)
        BY <1>1, RangeOfPop, SameRange DEF W!Below, W!Depth
      <3>2. Len(stack) \in Nat /\ Len(calls) \in Nat
        BY <1>1, <1>3, LenProperties
      <3> QED
        BY <3>1, <3>2 DEF W!Depth
    <2>2. {flag', framed', mixed'} \subseteq BOOLEAN /\ mode' \in {"desktop", "full"}
      BY <1>1, <1>4, <1>6 DEF W!TypeOK
    <2> QED
      BY <1>4, <1>6, <2>1, <2>2, WThrowInv
  <1> QED
    BY <1>5, <1>6

LEMMA WSetFullscreenInv ==
  ASSUME WInv, NEW enabled \in BOOLEAN, W!SetFullscreen(enabled)
  PROVE  WInv'
  <1>1. ~WWaits /\ flag' = enabled /\ mixed' = (mixed \/ borderless) /\ UNCHANGED <<state, borderless, keys, misled>>
    BY WNoneWaits DEF W!SetFullscreen
  <1>2. {mapped, focused} \subseteq BOOLEAN
    BY DEF WInv, WTypeInv, W!TypeOK
  <1> DEFINE calls == stack
             why == IF state # "Focused" THEN "forced" ELSE "none"
             quit == "none"
  <1>3. calls = stack /\ why \in {"none", "forced", "stale"} /\ (why = "none" => state = "Focused")
    OBVIOUS
  <1>4. quit \in {"none", "forced", "stale"}
    OBVIOUS
  <1>5. enabled => W!HandleWindowFullscreen(calls, why)
    BY DEF W!SetFullscreen
  <1>6. ~enabled =>
          /\ framed' = TRUE
          /\ \/ mode' = "desktop" /\ excuse' = quit /\ W!Activate(calls) /\ UNCHANGED <<mapped, last, alive, open>>
             \/ W!Throw(Len(calls)) /\ UNCHANGED <<mode, mapped, focused>>
    BY DEF W!SetFullscreen, W!HandleWindowRestore
  <1> HIDE DEF calls, why, quit
  <1>7. CASE enabled
    <2>1. flag' = TRUE
      BY <1>1, <1>7
    <2> QED
      BY <1>1, <1>3, <1>5, <1>7, <2>1, WFullscreenInv
  <1>8. CASE ~enabled
    <2>1. flag' \in BOOLEAN /\ ~flag' /\ framed' = TRUE
      BY <1>1, <1>6, <1>8
    <2>2. W!Activate(calls) /\ UNCHANGED mapped =>
            WAnnounces(calls)
      <3>1. <<"Active">> \in WLists \ {<<>>} /\ <<"Active">> \notin {<<"Inactive">>, <<"Restored">>, <<"Inactive", "Minimized">>}
        BY WNewLists
      <3> DEFINE l == <<"Active">>
      <3>2. W!Activate(calls) => \/ UNCHANGED focused /\ stack' = calls
                                 \/ focused' = TRUE /\ stack' = Append(calls, W!Sent(l))
        BY DEF W!Activate
      <3>3. l \in WLists \ {<<>>} /\ l \notin {<<"Inactive">>, <<"Restored">>, <<"Inactive", "Minimized">>}
        BY <3>1
      <3> HIDE DEF l
      <3>4. focused' = TRUE /\ UNCHANGED mapped => {mapped', focused'} \subseteq BOOLEAN /\ (mapped => mapped')
        BY <1>2
      <3>5. focused' = TRUE /\ UNCHANGED mapped /\ stack' = Append(calls, W!Sent(l)) => WAnnounces(calls)
        BY <3>3, <3>4 DEF WAnnounces
      <3>6. UNCHANGED <<mapped, focused>> /\ stack' = calls => WAnnounces(calls)
        BY DEF WAnnounces
      <3> QED
        BY <3>2, <3>5, <3>6
    <2>3. \/ /\ mode' = "desktop" /\ excuse' = quit /\ UNCHANGED <<last, alive, open>>
             /\ WAnnounces(calls)
             /\ flag' /\ WStays /\ ~misled /\ state = "Visible" => stack' # <<>> /\ W!Top' = W!Sent(<<"Minimized">>)
          \/ W!Throw(Len(calls)) /\ UNCHANGED <<mode, mapped, focused>>
      BY <1>6, <1>8, <2>1, <2>2
    <2> QED
      BY <1>1, <1>3, <1>4, <2>1, <2>3, WRestoreInv
  <1> QED
    BY <1>7, <1>8

LEMMA WStateCallbackReturnsInv ==
  ASSUME WInv, W!StateCallbackReturns
  PROVE  WInv'
  <1>1. /\ stack # <<>> /\ W!Top.fn = "StateTold" /\ ~WWaits
        /\ UNCHANGED <<state, flag, borderless, keys, misled>>
    BY WNoneWaits DEF W!StateCallbackReturns, W!Running
  <1>2. W!TypeOK /\ stack \in Seq(WCalls) /\ WKeysInv /\ WModeInv /\ WNextInv /\ WLaterInv
    BY DEF WInv, WTypeInv
  <1> DEFINE calls == W!Below
             why == IF W!Top.new = state THEN "none" ELSE "stale"
  <1>3. stack # <<>> /\ calls = W!Below /\ W!Top.fn = "StateTold" /\ why \in {"none", "forced", "stale"}
    BY <1>1
  <1>4. why = "none" => W!Top.new = state
    OBVIOUS
  <1>5. \/ ~flag /\ stack' = calls /\ UNCHANGED <<open, alive, mapped, focused, mode, framed, last, excuse, mixed>>
        \/ flag /\ W!Top.new = "Focused" /\ W!HandleWindowFullscreen(calls, why) /\ mixed' = (mixed \/ borderless)
        \/ /\ flag /\ W!Top.new # "Focused" /\ mixed' = (mixed \/ borderless) /\ framed' = TRUE
           /\ \/ mode' = "desktop" /\ excuse' = why /\ W!Minimise(calls) /\ UNCHANGED <<last, alive, open>>
              \/ W!Throw(Len(calls)) /\ UNCHANGED <<mode, mapped, focused>>
    BY DEF W!StateCallbackReturns, W!HandleWindowRestore, W!screen
  <1>6. calls \in Seq(WCalls) /\ \A c : c \in W!Range(calls) => W!Inside(c)
    BY <1>1, <1>2, WPopping
  <1>7. calls = stack \/ (stack # <<>> /\ calls = W!Below /\ W!Top.fn = "StateTold")
    BY <1>3
  <1> HIDE DEF calls, why
  <1>8. CASE ~flag /\ stack' = calls /\ UNCHANGED <<open, alive, mapped, focused, mode, framed, last, excuse, mixed>>
    <2>1. {flag', framed', mixed'} \subseteq BOOLEAN /\ mode' \in {"desktop", "full"}
            /\ excuse' \in {"none", "forced", "stale", "failed"}
      BY <1>1, <1>2, <1>8 DEF W!TypeOK
    <2>2. (\A c \in W!Range(calls) : c \in W!Range(calls)) /\ \A c \in W!Range(calls) : c \in W!Range(calls) \/ c.fn = "Sized"
      OBVIOUS
    <2>3. WAnnounces(calls)
      BY <1>8 DEF WAnnounces
    <2>4. WTypeInv' /\ WKeysInv' /\ WNextInv' /\ WLaterInv'
      BY <1>1, <1>6, <1>7, <1>8, <2>1, <2>2, <2>3, WSwitchKept
    <2>5. WModeInv'
      BY <1>1, <1>2, <1>8 DEF WModeInv
    <2>6. WLingerInv'
      BY <1>1, <1>8 DEF WLingerInv
    <2> QED
      BY <2>4, <2>5, <2>6 DEF WInv
  <1>9. CASE flag /\ W!Top.new = "Focused" /\ W!HandleWindowFullscreen(calls, why) /\ mixed' = (mixed \/ borderless)
    <2>1. flag' = TRUE /\ (why = "none" => state = "Focused")
      BY <1>1, <1>2, <1>4, <1>9 DEF W!TypeOK
    <2> QED
      BY <1>1, <1>3, <1>7, <1>9, <2>1, WFullscreenInv
  <1>10. CASE /\ flag /\ W!Top.new # "Focused" /\ mixed' = (mixed \/ borderless) /\ framed' = TRUE
              /\ \/ mode' = "desktop" /\ excuse' = why /\ W!Minimise(calls) /\ UNCHANGED <<last, alive, open>>
                 \/ W!Throw(Len(calls)) /\ UNCHANGED <<mode, mapped, focused>>
    <2>1. flag' \in BOOLEAN /\ (why = "none" => ~(flag' /\ state = "Focused"))
      BY <1>1, <1>2, <1>4, <1>10 DEF W!TypeOK
    <2>2. WStays /\ ~misled /\ state = "Visible" => mapped /\ open /\ ~focused
      BY <1>1, <1>2 DEF WNextInv, WStateTrue, WStays, W!TypeOK
    <2>3. W!Minimise(calls) =>
            /\ WAnnounces(calls)
            /\ mapped /\ open /\ ~focused => stack' = Append(calls, W!Sent(<<"Minimized">>))
      <3>1. CASE ~(mapped /\ open) /\ UNCHANGED <<mapped, focused>> /\ stack' = calls
        BY <3>1 DEF WAnnounces
      <3>2. ASSUME NEW l \in W!Orders, mapped' = FALSE, focused' = FALSE, stack' = Append(calls, W!Sent(l))
            PROVE  /\ l \in WLists \ {<<>>} /\ l # <<"Restored">> /\ (~focused => l = <<"Minimized">>)
                   /\ l \in {<<"Minimized">>, <<"Minimized", "Inactive">>, <<"Inactive", "Minimized">>}
        BY WNewLists, WListFacts DEF W!Orders
      <3>3. CASE W!Iconify(calls)
        <4>1. PICK l \in W!Orders : stack' = Append(calls, W!Sent(l))
          BY <3>3 DEF W!Iconify
        <4>2. mapped' = FALSE /\ focused' = FALSE
          BY <3>3 DEF W!Iconify
        <4>3. /\ l \in WLists \ {<<>>} /\ l # <<"Restored">> /\ (~focused => l = <<"Minimized">>)
              /\ l \in {<<"Minimized">>, <<"Minimized", "Inactive">>, <<"Inactive", "Minimized">>}
          BY <3>2, <4>1, <4>2
        <4> QED
          BY <4>1, <4>2, <4>3 DEF WAnnounces
      <3> QED
        BY <3>1, <3>3 DEF W!Minimise
    <2>4. W!Sent(<<"Minimized">>) \in WCalls
      BY WNewLists, WCallFacts
    <2>5. stack' = Append(calls, W!Sent(<<"Minimized">>)) => stack' # <<>> /\ W!Top' = W!Sent(<<"Minimized">>)
      <3> DEFINE f == W!Sent(<<"Minimized">>)
      <3>1. f \in WCalls
        BY <2>4
      <3> HIDE DEF f
      <3>2. stack' = Append(calls, f) => stack' # <<>> /\ W!Top' = f
        BY <1>6, <3>1, WPushing
      <3> QED
        BY <3>2 DEF f
    <2>6. \/ /\ mode' = "desktop" /\ excuse' = why /\ UNCHANGED <<last, alive, open>>
             /\ WAnnounces(calls)
             /\ flag' /\ WStays /\ ~misled /\ state = "Visible" => stack' # <<>> /\ W!Top' = W!Sent(<<"Minimized">>)
          \/ W!Throw(Len(calls)) /\ UNCHANGED <<mode, mapped, focused>>
      BY <1>10, <2>2, <2>3, <2>5
    <2> QED
      BY <1>1, <1>3, <1>7, <1>10, <2>1, <2>6, WRestoreInv
  <1> QED
    BY <1>5, <1>8, <1>9, <1>10

LEMMA WUnchanged ==
  ASSUME WInv, UNCHANGED W!vars
  PROVE  WInv'
  BY DEF WInv, WTypeInv, W!TypeOK, WKeysInv, WModeInv, WNextInv, WLaterInv, WLingerInv, WQuiet, WStays,
         WWaits, WStateTrue,
         W!Top, W!Below, W!Depth, W!Inside, W!vars, W!program, W!screen, W!history

LEMMA WStepInv ==
  ASSUME WInv, W!Next
  PROVE  WInv'
  <1>1. ASSUME NEW enabled \in BOOLEAN, W!SetFullscreen(enabled) \/ W!SetBorderless(enabled)
        PROVE  WInv'
    BY <1>1, WSetFullscreenInv, WSetBorderlessInv
  <1>2. ASSUME NEW k \in Keys, W!HandleKey(k)
        PROVE  WInv'
    BY <1>2, WHandleKeyInv
  <1>3. CASE W!Request \/ W!Close \/ W!Destroyed
    BY <1>3, WRequestInv, WCloseInv, WDestroyedInv
  <1>4. CASE W!PollEvents \/ W!PollReturns \/ W!UserActs \/ W!HandleClose \/ W!HandleMessage
    BY <1>4, WPollEventsInv, WPollReturnsInv, WUserActsInv, WHandleCloseInv, WHandleMessageInv
  <1>5. CASE W!SentReturns \/ W!SizedReturns \/ W!KeyCallbackReturns \/ W!StateCallbackReturns
    BY <1>5, WSentReturnsInv, WSizedReturnsInv, WKeyCallbackReturnsInv, WStateCallbackReturnsInv
  <1>6. CASE W!Ended
    BY <1>6, WUnchanged DEF W!Ended
  <1> QED
    BY <1>1, <1>2, <1>3, <1>4, <1>5, <1>6 DEF W!Next

LEMMA WInvImplies ==
  ASSUME WInv
  PROVE  W!KeysFollowEvents /\ W!StateIsTrue /\ W!ModeFitsState /\ W!NeverLingers
  <1>1. W!TypeOK /\ stack \in Seq(WCalls) /\ WKeysInv /\ WModeInv /\ WNextInv /\ WLingerInv
    BY DEF WInv, WTypeInv
  <1>2. DOMAIN stack = 1 .. W!Depth /\ W!Depth \in Nat
    BY <1>1, LenProperties DEF W!Depth
  <1>3. W!KeysFollowEvents
    BY <1>1 DEF WKeysInv, W!KeysFollowEvents
  <1>4. open /\ W!Frames("Destroying") = {} => WStays
    BY <1>2 DEF W!Frames, WStays, W!Range
  <1>5. ~W!Pending => ~WWaits
    <2>1. WWaits => W!Depth \in W!Frames("Sent") /\ stack[W!Depth].msgs # <<>>
      <3>1. stack # <<>> => W!Depth \in 1 .. W!Depth
        BY <1>1, <1>2, EmptySeq DEF W!Depth
      <3> QED
        BY <3>1 DEF WWaits, W!Frames, W!Top
    <2> QED
      BY <2>1 DEF W!Pending
  <1>6. W!StateIsTrue
    BY <1>1, <1>4, <1>5 DEF W!StateIsTrue, WNextInv, WStateTrue
  <1>7. W!Frames("StateTold") = {} => WQuiet
    BY <1>2 DEF W!Frames, WQuiet, W!Range
  <1>8. W!ModeFitsState
    BY <1>1, <1>7 DEF W!ModeFitsState, WModeInv
  <1>9. W!NeverLingers
    <2> SUFFICES ASSUME open, ~misled, stack = <<>>, flag, excuse = "none", ~focused, mapped
                 PROVE  FALSE
      BY DEF W!NeverLingers
    <2>1. \A c : c \notin W!Range(stack)
      BY DEF W!Range
    <2>2. WStays /\ WQuiet /\ ~WWaits
      BY <2>1 DEF WStays, WQuiet, WWaits
    <2>3. WStateTrue
      BY <1>1, <2>2 DEF WNextInv
    <2>4. state = "Visible"
      BY <1>1, <2>3 DEF WStateTrue, W!TypeOK, W!WindowStates
    <2> QED
      BY <1>1, <2>2, <2>4 DEF WLingerInv
  <1> QED
    BY <1>3, <1>6, <1>8, <1>9

-------------------------------------------------------------------------------
(* The window of the platform                                              *)

WindowInv ==
  /\ platform \in Platforms
  /\ \/ platform = "x11" /\ XInv
     \/ platform = "win32" /\ WInv

LEMMA WindowInvariant == WindowSpec => []WindowInv
  <1>1. WindowInit => WindowInv
    BY XInitInv, WInitInv DEF WindowInit, WindowInv
  <1>2. WindowInv /\ [WindowNext]_windowVars => WindowInv'
    <2>1. ASSUME WindowInv, WindowNext
          PROVE  WindowInv'
      BY <2>1, XStepInv, WStepInv DEF WindowInv, WindowNext
    <2>2. ASSUME XInv, UNCHANGED windowVars
          PROVE  XInv'
      BY <2>2, XUnchanged DEF windowVars, shared, x11Only, X!vars, X!program, X!screen, X!history
    <2>3. ASSUME WInv, UNCHANGED windowVars
          PROVE  WInv'
      BY <2>3, WUnchanged DEF windowVars, shared, win32Only, W!vars, W!program, W!screen, W!history
    <2>4. UNCHANGED windowVars => UNCHANGED platform
      BY DEF windowVars
    <2> QED
      BY <2>1, <2>2, <2>3, <2>4 DEF WindowInv
  <1> QED
    BY <1>1, <1>2, PTL DEF WindowSpec

\* Whatever keys there are, and however the callbacks nest and the handlers throw, a
\* key is where the last event handled for it says, Ongoing or Inactive
\* (x11_window.cpp:563-656, win32_window.cpp:314-410).
THEOREM KeysFollowEventsCorrect == WindowSpec => []KeysFollowEvents
  <1>1. WindowInv => KeysFollowEvents
    BY XInvImplies, WInvImplies DEF WindowInv, KeysFollowEvents
  <1> QED
    BY <1>1, WindowInvariant, PTL

\* Whatever waits in the queue of events or in calls into the system, once the program
\* knows all of it state_ is what the system knows of the window (x11_window.cpp:74-166,
\* win32_window.cpp:111-201).
THEOREM StateIsTrueCorrect == WindowSpec => []StateIsTrue
  <1>1. WindowInv => StateIsTrue
    BY XInvImplies, WInvImplies DEF WindowInv, StateIsTrue
  <1> QED
    BY <1>1, WindowInvariant, PTL

\* However the callbacks nest, the mode of the display and the window's frame fit the
\* flags and the state, but for the switches that excuse and mixed name
\* (x11_window.cpp:84-96, win32_window.cpp:186-198).
THEOREM ModeFitsStateCorrect == WindowSpec => []ModeFitsState
  <1>1. WindowInv => ModeFitsState
    BY XInvImplies, WInvImplies DEF WindowInv, ModeFitsState
  <1> QED
    BY <1>1, WindowInvariant, PTL

\* A fullscreen window out of focus does not stay on the screen (x11_window.cpp:95,
\* win32_window.cpp:195-196).
THEOREM NeverLingersCorrect == WindowSpec => []NeverLingers
  <1>1. WindowInv => NeverLingers
    BY XInvImplies, WInvImplies DEF WindowInv, NeverLingers
  <1> QED
    BY <1>1, WindowInvariant, PTL

\* Of all the steps of the program and the server only focus() ends the process, and
\* only in a race with the window manager (x11_window.cpp:275-284).
THEOREM KilledOnlyByRaceCorrect == WindowSpec => KilledOnlyByRace
  <1>1. WindowInv /\ [WindowNext]_windowVars => [platform = "x11" => X!DiesInRace]_windowVars
    BY XNextDiesInRace DEF WindowInv, WindowNext
  <1> QED
    BY <1>1, WindowInvariant, PTL DEF WindowSpec, KilledOnlyByRace

===============================================================================
