-------------------------- MODULE CallbackTable_proof -------------------------
(***************************************************************************)
(* Theorems about CallbackTable, for any number of threads, keys and       *)
(* callables and calls nested to any depth: what copying the callables     *)
(* under the lock and running them without it is worth.                    *)
(***************************************************************************)
EXTENDS CallbackTable, TLAPS

\* A thread that holds the lock is at the only place where it may.
HolderIsLocked == \A t \in Threads : lock = t => Busy(t) /\ Top(t).at = "Locked"

\* What a call under way has seen of the table, is going to run and has run.
Known(frame) ==
  /\ Content \subseteq frame.ever
  /\ frame.always \subseteq Content
  /\ frame.todo \subseteq frame.ever /\ frame.done \subseteq frame.ever
  /\ frame.at \in {"Calling", "Inside"} => frame.always \subseteq frame.todo \cup frame.done

AllKnown == \A t \in Threads : \A i \in DOMAIN stack[t] : Known(stack[t][i])

IInv == TypeOK /\ HolderIsLocked /\ AllKnown

-------------------------------------------------------------------------------
\* Everything in the table is an entry.
LEMMA ContentIsEntries ==
  ASSUME TypeOK
  PROVE  Content \subseteq Entries
  BY DEF TypeOK, Content, Entries

\* The top of a busy thread's stack is a frame.
LEMMA TopIsFrame ==
  ASSUME TypeOK, NEW t \in Threads, Busy(t)
  PROVE  /\ Depth(t) \in DOMAIN stack[t] /\ Depth(t) \in Nat \ {0} /\ Depth(t) <= MaxDepth
         /\ stack[t] \in Seq(Frames)
         /\ Top(t) = stack[t][Depth(t)] /\ Top(t) \in Frames
  <1>1. stack[t] \in Seq(Frames)
    BY DEF TypeOK
  <1>2. Len(stack[t]) \in Nat /\ Len(stack[t]) # 0 /\ DOMAIN stack[t] = 1 .. Len(stack[t])
    BY <1>1 DEF Busy
  <1> QED
    BY <1>1, <1>2 DEF Depth, Top, TypeOK

\* What a step does to one thread's stack when it only replaces the top.
LEMMA TopReplaced ==
  ASSUME IInv, NEW t \in Threads, Busy(t), NEW STATE frame, frame \in Frames,
         UNCHANGED table, lock' \in Threads \cup {NoThread},
         stack' = SetTop(t, frame), Known(frame)
  PROVE  TypeOK' /\ AllKnown'
  <1>1. stack[t] \in Seq(Frames) /\ Depth(t) \in 1 .. Len(stack[t])
    BY TopIsFrame DEF IInv
  <1>2. [stack[t] EXCEPT ![Depth(t)] = frame] \in Seq(Frames)
    BY <1>1
  <1>3. /\ stack' \in [Threads -> Seq(Frames)]
        /\ \A u \in Threads : DOMAIN stack'[u] = DOMAIN stack[u]
                           /\ Len(stack'[u]) = Len(stack[u])
        /\ \A u \in Threads : \A i \in DOMAIN stack[u] :
             stack'[u][i] = IF u = t /\ i = Depth(t) THEN frame ELSE stack[u][i]
    BY <1>1, <1>2 DEF SetTop, IInv, TypeOK
  <1>4. TypeOK'
    BY <1>3 DEF IInv, TypeOK
  <1>5. Content' = Content
    BY DEF Content
  <1>6. \A u \in Threads : \A i \in DOMAIN stack'[u] : Known(stack'[u][i])
    BY <1>3 DEF IInv, AllKnown
  <1>7. AllKnown'
    BY <1>5, <1>6 DEF AllKnown, Known
  <1> QED
    BY <1>4, <1>7

\* What a call returns to.
LEMMA TopRemoved ==
  ASSUME IInv, NEW t \in Threads, Busy(t)
  PROVE  /\ Popped(t) \in [Threads -> Seq(Frames)]
         /\ \A u \in Threads : /\ Len(Popped(t)[u]) <= Len(stack[u])
                               /\ DOMAIN Popped(t)[u] \subseteq DOMAIN stack[u]
                               /\ \A i \in DOMAIN Popped(t)[u] : Popped(t)[u][i] = stack[u][i]
         /\ \A u \in Threads \ {t} : Popped(t)[u] = stack[u]
  <1>1. stack[t] \in Seq(Frames) /\ Depth(t) \in 1 .. Len(stack[t])
    BY TopIsFrame DEF IInv
  <1>2. /\ SubSeq(stack[t], 1, Depth(t) - 1) \in Seq(Frames)
        /\ Len(SubSeq(stack[t], 1, Depth(t) - 1)) = Depth(t) - 1
        /\ \A i \in 1 .. Depth(t) - 1 : SubSeq(stack[t], 1, Depth(t) - 1)[i] = stack[t][i]
    BY <1>1
  <1> QED
    BY <1>1, <1>2 DEF Popped, IInv, TypeOK

\* A change of the table is seen by all calls under way.
LEMMA UpdateIsSeen ==
  ASSUME IInv, NEW t \in Threads, Busy(t), NEW STATE new, Update(t, new),
         DOMAIN new \subseteq Keys, new \in [DOMAIN new -> Callables]
  PROVE  IInv'
  <1> DEFINE C == {<<k, new[k]>> : k \in DOMAIN new}
             S == Popped(t)
             Seen(f) == [f EXCEPT !.ever = @ \cup C, !.always = @ \cap C]
  <1>1. C \subseteq Entries /\ C = Content'
    BY DEF Entries, Content, Update
  <1>2. S \in [Threads -> Seq(Frames)]
    BY TopRemoved
  <1>3. \A f \in Frames : Seen(f) \in Frames
    BY <1>1 DEF Frames
  <1>4. \A u \in Threads : \A i \in DOMAIN S[u] : S[u][i] \in Frames /\ Known(S[u][i])
    BY <1>2, TopRemoved DEF IInv, AllKnown
  <1>5. stack' = [u \in Threads |-> [i \in DOMAIN S[u] |-> Seen(S[u][i])]]
    BY <1>2 DEF Update, Witness
  <1>6. ASSUME NEW u \in Threads
        PROVE  /\ stack'[u] \in Seq(Frames) /\ Len(stack'[u]) = Len(S[u])
               /\ DOMAIN stack'[u] = DOMAIN S[u]
               /\ \A i \in DOMAIN stack'[u] : stack'[u][i] = Seen(S[u][i])
    <2>1. stack'[u] = [i \in 1 .. Len(S[u]) |-> Seen(S[u][i])]
      <3>1. S[u] \in Seq(Frames)
        BY <1>2
      <3>2. DOMAIN S[u] = 1 .. Len(S[u])
        BY <3>1
      <3> HIDE DEF Seen, S
      <3> QED
        BY <1>5, <3>2
    <2>2. \A i \in 1 .. Len(S[u]) : Seen(S[u][i]) \in Frames
      <3>1. S[u] \in Seq(Frames)
        BY <1>2
      <3> HIDE DEF Seen, S
      <3> QED
        BY <1>3, <3>1
    <2> HIDE DEF Seen, S
    <2>3. Len(S[u]) \in Nat
      BY <1>2
    <2> QED
      BY <1>2, <2>1, <2>2, <2>3
  <1>7. TypeOK'
    <2>1. stack' \in [Threads -> Seq(Frames)]
      BY <1>5, <1>6
    <2>2. \A u \in Threads : Len(stack'[u]) <= MaxDepth
      <3> SUFFICES ASSUME NEW u \in Threads
                   PROVE  Len(stack'[u]) <= MaxDepth
        OBVIOUS
      <3>1. Len(S[u]) <= Len(stack[u]) /\ Len(stack'[u]) = Len(S[u])
        BY <1>6, TopRemoved
      <3>2. Len(stack[u]) <= MaxDepth /\ stack[u] \in Seq(Frames) /\ S[u] \in Seq(Frames)
        BY <1>2 DEF IInv, TypeOK
      <3>3. Len(stack[u]) \in Nat /\ Len(S[u]) \in Nat /\ MaxDepth \in Nat
        BY <3>2, DepthAssumption
      <3> HIDE DEF S
      <3> QED
        BY <3>1, <3>2, <3>3
    <2> QED
      BY <2>1, <2>2 DEF Update, TypeOK
  <1>8. HolderIsLocked'
    BY ThreadAssumption DEF Update, HolderIsLocked
  <1>9. AllKnown'
    <2> SUFFICES ASSUME NEW u \in Threads, NEW i \in DOMAIN stack'[u]
                 PROVE  Known(stack[u][i])'
      BY DEF AllKnown
    <2>1. stack'[u][i] = Seen(S[u][i]) /\ S[u][i] \in Frames /\ Known(S[u][i])
      BY <1>4, <1>6
    <2>2. /\ stack'[u][i].ever = S[u][i].ever \cup C
          /\ stack'[u][i].always = S[u][i].always \cap C
          /\ stack'[u][i].todo = S[u][i].todo /\ stack'[u][i].done = S[u][i].done
          /\ stack'[u][i].at = S[u][i].at
      BY <2>1 DEF Frames
    <2> QED
      BY <1>1, <2>1, <2>2 DEF Known
  <1> QED
    BY <1>7, <1>8, <1>9 DEF IInv

LEMMA InitIInv ==
  ASSUME Init
  PROVE  IInv
  BY DepthAssumption, ThreadAssumption DEF Init, IInv, TypeOK, HolderIsLocked, AllKnown

\* Where a thread is and what stack' makes of it.
LEMMA ReplacedTop ==
  ASSUME TypeOK, NEW t \in Threads, Busy(t), NEW STATE frame, stack' = SetTop(t, frame)
  PROVE  /\ Busy(t)' /\ Top(t)' = frame
         /\ \A u \in Threads \ {t} : stack'[u] = stack[u]
  <1>1. stack[t] \in Seq(Frames) /\ Depth(t) \in 1 .. Len(stack[t])
        /\ stack[t] # <<>> /\ Depth(t) = Len(stack[t])
    BY TopIsFrame DEF Busy, Depth
  <1>2. stack'[t] = [stack[t] EXCEPT ![Depth(t)] = frame]
    BY DEF SetTop, TypeOK
  <1>3. Len(stack'[t]) = Len(stack[t]) /\ stack'[t][Depth(t)] = frame
    BY <1>1, <1>2
  <1>4. stack'[t] # <<>>
    BY <1>1, <1>3
  <1> QED
    BY <1>1, <1>3, <1>4 DEF SetTop, TypeOK, Busy, Top, Depth

\* A step that replaces the top of a thread that does not hold the lock.
LEMMA TopOnly ==
  ASSUME IInv, NEW t \in Threads, Busy(t), NEW STATE frame, frame \in Frames, Known(frame),
         Top(t).at # "Locked", UNCHANGED <<table, lock>>, stack' = SetTop(t, frame)
  PROVE  IInv'
  <1>1. lock' \in Threads \cup {NoThread}
    BY DEF IInv, TypeOK
  <1>2. TypeOK' /\ AllKnown'
    BY <1>1, TopReplaced
  <1>3. lock # t
    BY DEF IInv, HolderIsLocked
  <1>4. HolderIsLocked'
    <2>1. \A u \in Threads \ {t} : stack'[u] = stack[u]
      BY ReplacedTop DEF IInv
    <2> QED
      BY <1>3, <2>1 DEF IInv, HolderIsLocked, Busy, Top, Depth
  <1> QED
    BY <1>2, <1>4 DEF IInv

LEMMA BeginIInv ==
  ASSUME IInv, NEW t \in Threads, NEW op \in Ops, NEW entry \in Entries, Begin(t, op, entry)
  PROVE  IInv'
  <1> DEFINE frame ==
        [op |-> op, entry |-> entry, at |-> "Waiting", todo |-> {}, done |-> {},
         errors |-> FALSE, ever |-> Content, always |-> Content]
  <1>1. frame \in Frames /\ Known(frame)
    BY ContentIsEntries DEF IInv, Frames, Known
  <1>2. stack[t] \in Seq(Frames) /\ Len(stack[t]) < MaxDepth
    BY DEF IInv, TypeOK, Begin, Depth
  <1>3. stack' = [stack EXCEPT ![t] = Append(@, frame)] /\ UNCHANGED <<table, lock>>
    BY DEF Begin
  <1>4. lock # t
    BY DEF Begin, IInv, HolderIsLocked
  <1> HIDE DEF frame
  <1>5. stack'[t] = Append(stack[t], frame) /\ \A u \in Threads \ {t} : stack'[u] = stack[u]
    BY <1>3 DEF IInv, TypeOK
  <1>6. /\ Append(stack[t], frame) \in Seq(Frames)
        /\ Len(stack'[t]) = Len(stack[t]) + 1
        /\ \A i \in DOMAIN stack'[t] : Known(stack'[t][i])
    BY <1>1, <1>2, <1>5 DEF IInv, AllKnown
  <1>7. TypeOK'
    <2>1. stack' \in [Threads -> Seq(Frames)]
      BY <1>3, <1>6 DEF IInv, TypeOK
    <2>2. \A u \in Threads : Len(stack'[u]) <= MaxDepth
      <3>1. Len(stack[t]) \in Nat /\ MaxDepth \in Nat
        BY <1>2, DepthAssumption
      <3>2. Len(stack'[t]) <= MaxDepth
        BY <1>2, <1>6, <3>1
      <3>3. \A u \in Threads \ {t} : Len(stack'[u]) <= MaxDepth
        BY <1>5 DEF IInv, TypeOK
      <3> QED
        BY <3>2, <3>3
    <2> QED
      BY <1>3, <2>1, <2>2 DEF IInv, TypeOK
  <1>8. HolderIsLocked'
    BY <1>3, <1>4, <1>5 DEF IInv, HolderIsLocked, Busy, Top, Depth
  <1>9. AllKnown'
    <2>1. \A u \in Threads : \A i \in DOMAIN stack'[u] : Known(stack'[u][i])
      BY <1>5, <1>6 DEF IInv, AllKnown
    <2>2. Content' = Content
      BY <1>3 DEF Content
    <2> QED
      BY <2>1, <2>2 DEF AllKnown, Known
  <1> QED
    BY <1>7, <1>8, <1>9 DEF IInv

LEMMA FinishIInv ==
  ASSUME IInv, NEW t \in Threads, Finish(t)
  PROVE  IInv'
  <1>1. Busy(t) /\ Top(t).at = "Calling" /\ stack' = Popped(t) /\ UNCHANGED <<table, lock>>
    BY DEF Finish, Is
  <1>2. lock # t
    BY <1>1 DEF IInv, HolderIsLocked
  <1>3. TypeOK'
    <2>1. \A u \in Threads : Len(stack'[u]) <= MaxDepth
      <3> SUFFICES ASSUME NEW u \in Threads
                   PROVE  Len(stack'[u]) <= MaxDepth
        OBVIOUS
      <3>1. Len(stack'[u]) <= Len(stack[u]) /\ stack'[u] \in Seq(Frames)
        BY <1>1, TopRemoved
      <3>2. Len(stack[u]) <= MaxDepth /\ stack[u] \in Seq(Frames)
        BY DEF IInv, TypeOK
      <3> QED
        BY <3>1, <3>2, DepthAssumption
    <2> QED
      BY <1>1, <2>1, TopRemoved DEF IInv, TypeOK
  <1>4. HolderIsLocked'
    <2>1. \A u \in Threads \ {t} : stack'[u] = stack[u]
      BY <1>1, TopRemoved
    <2> QED
      BY <1>1, <1>2, <2>1 DEF IInv, HolderIsLocked, Busy, Top, Depth
  <1>5. AllKnown'
    <2>1. \A u \in Threads : \A i \in DOMAIN stack'[u] : Known(stack'[u][i])
      BY <1>1, TopRemoved DEF IInv, AllKnown
    <2>2. Content' = Content
      BY <1>1 DEF Content
    <2> QED
      BY <2>1, <2>2 DEF AllKnown, Known
  <1> QED
    BY <1>3, <1>4, <1>5 DEF IInv

\* The operations under the lock.
LEMMA CriticalIInv ==
  ASSUME IInv, NEW t \in Threads, Critical(t)
  PROVE  IInv'
  <1>0. DOMAIN table \subseteq Keys /\ table \in [DOMAIN table -> Callables]
    BY DEF IInv, TypeOK
  <1>1. CASE Define(t)
    <2> DEFINE k == Top(t).entry[1]
               new == [x \in DOMAIN table \cup {k} |->
                         IF x = k THEN Top(t).entry[2] ELSE table[x]]
    <2>1. Busy(t) /\ Update(t, new)
      BY <1>1 DEF Define, Is
    <2>2. Top(t).entry \in Entries
      BY <2>1, TopIsFrame DEF IInv, Frames
    <2>3. DOMAIN new \subseteq Keys /\ new \in [DOMAIN new -> Callables]
      BY <1>0, <2>2 DEF Entries
    <2> HIDE DEF new
    <2> QED
      BY <2>1, <2>3, UpdateIsSeen
  <1>2. CASE Undefine(t)
    <2> DEFINE new == Restrict(table, DOMAIN table \ {Top(t).entry[1]})
    <2>1. Busy(t) /\ Update(t, new)
      BY <1>2 DEF Undefine, Is
    <2>2. DOMAIN new \subseteq Keys /\ new \in [DOMAIN new -> Callables]
      BY <1>0 DEF Restrict
    <2> HIDE DEF new
    <2> QED
      BY <2>1, <2>2, UpdateIsSeen
  <1>3. CASE Clear(t)
    <2> DEFINE new == Restrict(table, {})
    <2>1. Busy(t) /\ Update(t, new)
      BY <1>3 DEF Clear, Is
    <2>2. DOMAIN new \subseteq Keys /\ new \in [DOMAIN new -> Callables]
      BY DEF Restrict
    <2> HIDE DEF new
    <2> QED
      BY <2>1, <2>2, UpdateIsSeen
  <1>4. CASE Read(t)
    <2>1. Busy(t) /\ Update(t, table)
      BY <1>4 DEF Read, Is
    <2> QED
      BY <1>0, <2>1, UpdateIsSeen
  <1>5. CASE Snapshot(t)
    <2> DEFINE frame == [Top(t) EXCEPT !.at = "Calling", !.todo = Content]
    <2>1. /\ Busy(t) /\ lock' = NoThread /\ UNCHANGED table
          /\ stack' = SetTop(t, frame)
      BY <1>5 DEF Snapshot, Is
    <2>2. Top(t) \in Frames /\ Known(Top(t))
      BY <2>1, TopIsFrame DEF IInv, AllKnown
    <2>3. frame \in Frames /\ Known(frame)
      BY <2>2, ContentIsEntries DEF IInv, Frames, Known
    <2> HIDE DEF frame
    <2>4. TypeOK' /\ AllKnown'
      BY <2>1, <2>3, TopReplaced
    <2>5. HolderIsLocked'
      BY <2>1, ThreadAssumption DEF HolderIsLocked
    <2> QED
      BY <2>4, <2>5 DEF IInv
  <1> QED
    BY <1>1, <1>2, <1>3, <1>4, <1>5 DEF Critical

LEMMA StepIInv ==
  ASSUME IInv, [Next]_vars
  PROVE  IInv'
  <1>1. CASE UNCHANGED vars
    BY <1>1 DEF vars, IInv, TypeOK, HolderIsLocked, AllKnown, Known, Content, Busy, Top, Depth
  <1>2. CASE Next
    <2> PICK t \in Threads :
          \/ \E op \in Ops, entry \in Entries : Begin(t, op, entry)
          \/ Acquire(t) \/ Critical(t)
          \/ \E entry \in Entries : Enter(t, entry)
          \/ \E threw \in BOOLEAN : Leave(t, threw)
          \/ Finish(t)
      BY <1>2 DEF Next
    <2>1. ASSUME NEW op \in Ops, NEW entry \in Entries, Begin(t, op, entry)
          PROVE  IInv'
      BY <2>1, BeginIInv
    <2>2. CASE Acquire(t)
      <3> DEFINE frame == [Top(t) EXCEPT !.at = "Locked"]
      <3>1. Busy(t) /\ Top(t).at = "Waiting" /\ lock' = t
            /\ UNCHANGED table /\ stack' = SetTop(t, frame)
        BY <2>2 DEF Acquire
      <3>2. Top(t) \in Frames /\ Known(Top(t))
        BY <3>1, TopIsFrame DEF IInv, AllKnown
      <3>3. frame \in Frames /\ Known(frame) /\ frame.at = "Locked"
        BY <3>2 DEF Frames, Known
      <3> HIDE DEF frame
      <3>4. TypeOK' /\ AllKnown'
        BY <3>1, <3>3, TopReplaced
      <3>5. HolderIsLocked'
        <4>1. Busy(t)' /\ Top(t)' = frame
          BY <3>1, ReplacedTop DEF IInv
        <4> QED
          BY <3>1, <3>3, <4>1 DEF HolderIsLocked
      <3> QED
        BY <3>4, <3>5 DEF IInv
    <2>3. CASE Critical(t)
      BY <2>3, CriticalIInv
    <2>4. ASSUME NEW entry \in Entries, Enter(t, entry)
          PROVE  IInv'
      <3> DEFINE frame == [Top(t) EXCEPT !.at = "Inside", !.todo = @ \ {entry},
                             !.done = @ \cup {entry}, !.entry = entry]
      <3>1. /\ Busy(t) /\ Top(t).at = "Calling" /\ entry \in Top(t).todo
            /\ UNCHANGED <<table, lock>> /\ stack' = SetTop(t, frame)
        BY <2>4 DEF Enter, Is
      <3>2. Top(t) \in Frames /\ Known(Top(t))
        BY <3>1, TopIsFrame DEF IInv, AllKnown
      <3>3. frame \in Frames /\ Known(frame)
        BY <3>1, <3>2 DEF Frames, Known
      <3> HIDE DEF frame
      <3> QED
        BY <3>1, <3>3, TopOnly
    <2>5. ASSUME NEW threw \in BOOLEAN, Leave(t, threw)
          PROVE  IInv'
      <3> DEFINE frame == [Top(t) EXCEPT !.at = "Calling", !.errors = @ \/ threw]
      <3>1. /\ Busy(t) /\ Top(t).at = "Inside"
            /\ UNCHANGED <<table, lock>> /\ stack' = SetTop(t, frame)
        BY <2>5 DEF Leave, Is
      <3>2. Top(t) \in Frames /\ Known(Top(t))
        BY <3>1, TopIsFrame DEF IInv, AllKnown
      <3>3. frame \in Frames /\ Known(frame)
        BY <3>1, <3>2 DEF Frames, Known
      <3> HIDE DEF frame
      <3> QED
        BY <3>1, <3>3, TopOnly
    <2>6. CASE Finish(t)
      BY <2>6, FinishIInv
    <2> QED
      BY <2>1, <2>2, <2>3, <2>4, <2>5, <2>6
  <1> QED
    BY <1>1, <1>2

-------------------------------------------------------------------------------
\* The state has its type, for any number of threads, keys and callables.
THEOREM TypeCorrect == Spec => []TypeOK
  <1>1. Spec => []IInv
    BY InitIInv, StepIInv, PTL DEF Spec
  <1>2. IInv => TypeOK
    BY DEF IInv
  <1> QED
    BY <1>1, <1>2, PTL

\* However callables call back, the thread never waits for the lock it holds
\* (library.ipp:77-171): it holds it only where no callable runs.
THEOREM NeverSelfDeadlocked == Spec => []NoSelfDeadlock
  <1>1. Spec => []IInv
    BY InitIInv, StepIInv, PTL DEF Spec
  <1>2. IInv => NoSelfDeadlock
    BY DEF IInv, HolderIsLocked, NoSelfDeadlock
  <1> QED
    BY <1>1, <1>2, PTL

\* What a call() runs was in the table at some time during that call().
THEOREM RunsAreKnown == Spec => []RunsWereDefined
  <1>1. Spec => []IInv
    BY InitIInv, StepIInv, PTL DEF Spec
  <1>2. IInv => RunsWereDefined
    BY DEF IInv, AllKnown, Known, RunsWereDefined
  <1> QED
    BY <1>1, <1>2, PTL

\* A call() that ends has run all that were in the table throughout it, whichever
\* of them threw and whatever was defined and undefined in the meantime.
THEOREM NobodyIsEverSkipped == Spec => NobodyIsSkipped
  <1>1. Spec => []IInv
    BY InitIInv, StepIInv, PTL DEF Spec
  <1>2. ASSUME IInv, NEW t \in Threads, Finish(t)
        PROVE  Top(t).always \subseteq Top(t).done
    <2>1. Busy(t) /\ Top(t).at = "Calling" /\ Top(t).todo = {}
      BY <1>2 DEF Finish, Is
    <2>2. Known(Top(t))
      BY <1>2, <2>1, TopIsFrame DEF IInv, AllKnown
    <2> QED
      BY <2>1, <2>2 DEF Known
  <1>3. IInv => [\A t \in Threads : Finish(t) => Top(t).always \subseteq Top(t).done]_vars
    BY <1>2
  <1> QED
    BY <1>1, <1>3, PTL DEF NobodyIsSkipped

===============================================================================
