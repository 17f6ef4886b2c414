---------------------------- MODULE CallbackTable -----------------------------
(***************************************************************************)
(* RF::abstract_function_t (include/RF/library.ipp:40-171): a table of     *)
(* callables under string keys, shared by threads.  One mutex protects the *)
(* map; call() copies the callables out under it and runs them without it, *)
(* so a callable may itself define, undefine and call, on the same table.  *)
(* A thread therefore has a stack of calls under way, the last one on top. *)
(*                                                                         *)
(* call() for a void and for a non-void result differ only in what they    *)
(* collect beside the errors.                                              *)
(***************************************************************************)
EXTENDS Integers, Sequences, FiniteSets, Functions

CONSTANTS
  Threads,
  Keys,
  Callables,
  MaxDepth      \* bound on calls nested through callables

NoThread == "none"

ASSUME DepthAssumption == MaxDepth \in Nat \ {0}
ASSUME ThreadAssumption == NoThread \notin Threads

Entries == Keys \X Callables

VARIABLES
  table,    \* map_: key -> callable
  lock,     \* mutex_: the thread that holds it, or NoThread
  stack     \* per thread, the calls under way

vars == <<table, lock, stack>>

\* The entries of the map, as <<key, callable>>.
Content == {<<k, table[k]>> : k \in DOMAIN table}

Ops == {"define", "undefine", "clear", "read", "call"}

\* A call under way: the operation and its arguments; where it is; the part of
\* the snapshot that is yet to run, and the part that has run; whether a callable
\* threw; and, as history, the entries that have been in the table at some time
\* and at all times since the call began.
Frames ==
  [op : Ops, entry : Entries, at : {"Waiting", "Locked", "Calling", "Inside"},
   todo : SUBSET Entries, done : SUBSET Entries, errors : BOOLEAN,
   ever : SUBSET Entries, always : SUBSET Entries]

TypeOK ==
  /\ DOMAIN table \subseteq Keys
  /\ table \in [DOMAIN table -> Callables]
  /\ lock \in Threads \cup {NoThread}
  /\ stack \in [Threads -> Seq(Frames)]
  /\ \A t \in Threads : Len(stack[t]) <= MaxDepth

-------------------------------------------------------------------------------
Depth(t)  == Len(stack[t])
Busy(t)   == stack[t] # <<>>
Top(t)    == stack[t][Depth(t)]
Is(t, op, at) == Busy(t) /\ Top(t).op = op /\ Top(t).at = at

\* Everybody's calls under way have now also seen the new content of the table.
Witness(S, new) ==
  [t \in Threads |->
    [i \in DOMAIN S[t] |-> [S[t][i] EXCEPT !.ever = @ \cup new, !.always = @ \cap new]]]

SetTop(t, frame) == [stack EXCEPT ![t][Depth(t)] = frame]
Popped(t) == [stack EXCEPT ![t] = SubSeq(@, 1, Depth(t) - 1)]

\* A change of the map under the lock, after which the operation returns.
Update(t, new) ==
  /\ table' = new
  /\ stack' = Witness(Popped(t), {<<k, new[k]>> : k \in DOMAIN new})
  /\ lock' = NoThread

Init ==
  /\ table = [k \in {} |-> k]
  /\ lock = NoThread
  /\ stack = [t \in Threads |-> <<>>]

\* A thread calls an operation, from outside or from inside a callable.
Begin(t, op, entry) ==
  /\ Busy(t) => Top(t).at = "Inside"
  /\ Depth(t) < MaxDepth
  /\ stack' = [stack EXCEPT ![t] = Append(@,
       [op |-> op, entry |-> entry, at |-> "Waiting", todo |-> {}, done |-> {},
        errors |-> FALSE, ever |-> Content, always |-> Content])]
  /\ UNCHANGED <<table, lock>>

Acquire(t) ==
  /\ Busy(t) /\ Top(t).at = "Waiting"
  /\ lock = NoThread
  /\ lock' = t
  /\ stack' = SetTop(t, [Top(t) EXCEPT !.at = "Locked"])
  /\ UNCHANGED table

\* define(): a new key is added, the callable of a known key is replaced.
Define(t) ==
  /\ Is(t, "define", "Locked")
  /\ LET k == Top(t).entry[1] IN
     Update(t, [x \in DOMAIN table \cup {k} |->
                  IF x = k THEN Top(t).entry[2] ELSE table[x]])

\* undefine(): nothing happens for an unknown key.
Undefine(t) ==
  /\ Is(t, "undefine", "Locked")
  /\ Update(t, Restrict(table, DOMAIN table \ {Top(t).entry[1]}))

Clear(t) ==
  /\ Is(t, "clear", "Locked")
  /\ Update(t, Restrict(table, {}))

\* contains() and size() only look.
Read(t) ==
  /\ Is(t, "read", "Locked")
  /\ Update(t, table)

\* Mutant: the lock is kept while the callables run.
Mut_Snapshot(t) ==
  /\ Is(t, "call", "Locked")
  /\ stack' = SetTop(t, [Top(t) EXCEPT !.at = "Calling", !.todo = Content])
  /\ UNCHANGED <<table, lock>>

\* Mutant: the copy is a member, in which an outer call() has left its own.
Mut_SnapshotShared(t) ==
  /\ Is(t, "call", "Locked")
  /\ lock' = NoThread
  /\ stack' = SetTop(t, [Top(t) EXCEPT !.at = "Calling",
                 !.todo = Content \cup UNION {stack[t][i].todo : i \in DOMAIN stack[t]}])
  /\ UNCHANGED table

\* call(): the callables are copied and the lock is released.
Snapshot(t) ==
  /\ Is(t, "call", "Locked")
  /\ lock' = NoThread
  /\ stack' = SetTop(t, [Top(t) EXCEPT !.at = "Calling", !.todo = Content])
  /\ UNCHANGED table

\* A callable of the snapshot starts, in the unspecified order of the map.
Enter(t, entry) ==
  /\ Is(t, "call", "Calling")
  /\ entry \in Top(t).todo
  /\ stack' = SetTop(t, [Top(t) EXCEPT !.at = "Inside", !.todo = @ \ {entry},
                                       !.done = @ \cup {entry}, !.entry = entry])
  /\ UNCHANGED <<table, lock>>

\* Mutant: the exception of a callable ends the loop.
Mut_Leave(t, threw) ==
  /\ Is(t, "call", "Inside")
  /\ stack' = SetTop(t, [Top(t) EXCEPT !.at = "Calling", !.errors = @ \/ threw,
                                       !.todo = IF threw THEN {} ELSE @])
  /\ UNCHANGED <<table, lock>>

\* The callable returns or throws; what it threw is kept for later.
Leave(t, threw) ==
  /\ Is(t, "call", "Inside")
  /\ stack' = SetTop(t, [Top(t) EXCEPT !.at = "Calling", !.errors = @ \/ threw])
  /\ UNCHANGED <<table, lock>>

\* All have run: call() returns, or throws one error for all that threw.  Inside a
\* callable of an outer call() that error is that callable's.
Finish(t) ==
  /\ Is(t, "call", "Calling")
  /\ Top(t).todo = {}
  /\ stack' = Popped(t)
  /\ UNCHANGED <<table, lock>>

Critical(t) == Define(t) \/ Undefine(t) \/ Clear(t) \/ Read(t) \/ Snapshot(t)

Next == \E t \in Threads :
  \/ \E op \in Ops, entry \in Entries : Begin(t, op, entry)
  \/ Acquire(t)
  \/ Critical(t)
  \/ \E entry \in Entries : Enter(t, entry)
  \/ \E threw \in BOOLEAN : Leave(t, threw)
  \/ Finish(t)

Spec == Init /\ [][Next]_vars

-------------------------------------------------------------------------------
(* What makes the table correct *)

\* No thread waits for the lock it holds, however its callables call back: the
\* mutex is not recursive, so it would wait for ever.
NoSelfDeadlock ==
  \A t \in Threads : Busy(t) /\ Top(t).at = "Waiting" => lock # t

\* A callable may run after undefine() took it out of the table, even after that
\* undefine() has returned; but it was in the table at some time during the call()
\* that runs it.
RunsWereDefined ==
  \A t \in Threads : \A i \in DOMAIN stack[t] :
    stack[t][i].done \subseteq stack[t][i].ever

\* Whoever is in the table during the whole of a call() is run by it, whatever
\* other callables throw and other threads define in the meantime.
NobodyIsSkipped ==
  [][\A t \in Threads : Finish(t) => Top(t).always \subseteq Top(t).done]_vars

===============================================================================
