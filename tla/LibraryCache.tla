------------------------------ MODULE LibraryCache ------------------------------
(***************************************************************************)
(* RF::library_m and RF::lib (src/core/library.cpp, include/RF/library.ipp *)
(* 1-38): a static map from names to shared_ptr<lib>, which threads use    *)
(* without a lock, and the dynamic loader behind it.                       *)
(*                                                                         *)
(* A lib lives as long as somebody has its shared_ptr: the map, a thread,  *)
(* or a load_library under way.  The loader counts how often a library is  *)
(* open; when it is open no more its code is gone, and a later dlopen may  *)
(* put it elsewhere.                                                       *)
(*                                                                         *)
(* Two threads in the map at the same time, one of them to change it, are  *)
(* a data race, after which anything may be: the model stops there.  Two   *)
(* threads in load_library at the same time, with the dlopen of one        *)
(* between the find and the insert of the other, are not.                  *)
(***************************************************************************)
EXTENDS Integers, FiniteSets

CONSTANTS
  Threads,
  Names,      \* names of libraries
  Libs,       \* lib objects, used again when they are destroyed
  MaxLoads    \* bound on the times a library is mapped into memory

VARIABLES
  libraries,  \* libraries_: name -> lib object, or NoLib
  lib,        \* per object, the name it was made with, and handle_; or Gone
  held,       \* per thread, the objects it has a shared_ptr to
  call,       \* per thread, the call under way
  opened,     \* loader: per name, how often it is open
  mapping,    \* loader: per name, how often it has been mapped
  functions,  \* functions taken from libraries, as long as they may be called
  torn        \* two threads were in the map at the same time

vars == <<libraries, lib, held, call, opened, mapping, functions, torn>>

NoLib == "none"

LibsAssumption == IsFiniteSet(Libs) /\ NoLib \notin Libs

Gone  == [name |-> "none", valid |-> FALSE]
NoCall == [at |-> "None", name |-> "none", obj |-> NoLib]

-------------------------------------------------------------------------------
InMap(t)  == call[t].at \in {"Finding", "Inserting", "Erasing"}
Writes(t) == \/ call[t].at = "Inserting"
             \/ call[t].at = "Erasing" /\ libraries[call[t].name] # NoLib

\* Who has a shared_ptr to object o.
Has(o) ==
  \/ \E n \in Names : libraries[n] = o
  \/ \E t \in Threads : o \in held[t] \/ call[t].obj = o

\* A library that is in the map, or of which somebody has a valid object.
Covered(n) ==
  \/ libraries[n] # NoLib
  \/ \E t \in Threads : \E o \in held[t] : lib[o].name = n /\ lib[o].valid

\* Mutant: ~lib forgets to close the library.
Mut_Settle(made, by) ==
  /\ lib' = [o \in Libs |-> IF ~Has(o)' THEN Gone ELSE IF o = by THEN made ELSE lib[o]]
  /\ opened' = [n \in Names |-> opened[n] + (IF made.valid /\ made.name = n THEN 1 ELSE 0)]
  /\ mapping' = [n \in Names |->
                   mapping[n] + (IF opened[n] = 0 /\ opened'[n] > 0 THEN 1 ELSE 0)]
  /\ functions' = {f \in functions : Covered(f.name)'}

\* After each step: object "by" is what "made" says, if there is one; objects nobody
\* has any more are destroyed, and ~lib closes what is valid (lines 39-48).  Functions
\* of libraries that are not covered any more may not be called.
Settle(made, by) ==
  LET dies(n) == {o \in Libs : lib[o].name = n /\ lib[o].valid /\ ~Has(o)'} IN
  /\ lib' = [o \in Libs |-> IF ~Has(o)' THEN Gone ELSE IF o = by THEN made ELSE lib[o]]
  /\ opened' = [n \in Names |-> opened[n] - Cardinality(dies(n))
                                  + (IF made.valid /\ made.name = n THEN 1 ELSE 0)]
  /\ mapping' = [n \in Names |->
                   mapping[n] + (IF opened[n] = 0 /\ opened'[n] > 0 THEN 1 ELSE 0)]
  /\ functions' = {f \in functions : Covered(f.name)'}

\* Thread t enters the map.
Enter(t, at, name, obj) ==
  /\ UNCHANGED libraries
  /\ call' = [call EXCEPT ![t] = [at |-> at, name |-> name, obj |-> obj]]
  /\ torn' = \E u \in Threads \ {t} : InMap(u) /\ (Writes(u) \/ Writes(t)')

-------------------------------------------------------------------------------
(* load_library, lines 6-20 *)

LoadLibrary(t, n) ==
  /\ ~torn /\ call[t] = NoCall
  /\ Enter(t, "Finding", n, NoLib)
  /\ UNCHANGED <<lib, held, opened, mapping, functions>>

Find(t) ==
  /\ ~torn /\ call[t].at = "Finding"
  /\ LET o == libraries[call[t].name] IN
     IF o # NoLib
     THEN /\ held' = [held EXCEPT ![t] = @ \cup {o}]
          /\ call' = [call EXCEPT ![t] = NoCall]
     ELSE /\ call' = [call EXCEPT ![t].at = "Missing"]
          /\ UNCHANGED held
  /\ UNCHANGED <<libraries, lib, opened, mapping, functions, torn>>

\* make_shared<lib>: dlopen works or not.  An object that is not valid is returned,
\* but not kept.
MakeLib(t, works) ==
  /\ ~torn /\ call[t].at = "Missing"
  /\ mapping[call[t].name] < MaxLoads
  /\ \E o \in Libs :
       /\ lib[o] = Gone
       /\ \/ /\ works
             /\ call' = [call EXCEPT ![t].at = "Made", ![t].obj = o]
             /\ UNCHANGED held
          \/ /\ ~works
             /\ call' = [call EXCEPT ![t] = NoCall]
             /\ held' = [held EXCEPT ![t] = @ \cup {o}]
       /\ UNCHANGED <<libraries, torn>>
       /\ Settle([name |-> call[t].name, valid |-> works], o)

Insert(t) ==
  /\ ~torn /\ call[t].at = "Made"
  /\ Enter(t, "Inserting", call[t].name, call[t].obj)
  /\ UNCHANGED <<lib, held, opened, mapping, functions>>

\* The object another thread has put there meanwhile is replaced.
Inserted(t) ==
  /\ ~torn /\ call[t].at = "Inserting"
  /\ libraries' = [libraries EXCEPT ![call[t].name] = call[t].obj]
  /\ held' = [held EXCEPT ![t] = @ \cup {call[t].obj}]
  /\ call' = [call EXCEPT ![t] = NoCall]
  /\ UNCHANGED torn
  /\ Settle(Gone, NoLib)

-------------------------------------------------------------------------------
(* unload_library, lines 22-27, and what the application does with a lib *)

UnloadLibrary(t, n) ==
  /\ ~torn /\ call[t] = NoCall
  /\ Enter(t, "Erasing", n, NoLib)
  /\ UNCHANGED <<lib, held, opened, mapping, functions>>

Erased(t) ==
  /\ ~torn /\ call[t].at = "Erasing"
  /\ libraries' = [libraries EXCEPT ![call[t].name] = NoLib]
  /\ call' = [call EXCEPT ![t] = NoCall]
  /\ UNCHANGED <<held, torn>>
  /\ Settle(Gone, NoLib)

\* get_function and get_function_raw: the pointer found by dlsym, which keeps nothing.
\* With the null handle of an object that is not valid, dlsym looks in the program
\* itself, or throws: no function of the library either way.
GetFunction(t, o) ==
  /\ ~torn /\ call[t] = NoCall /\ o \in held[t] /\ lib[o].valid
  /\ functions' = functions \cup {[name |-> lib[o].name, mapping |-> mapping[lib[o].name]]}
  /\ UNCHANGED <<libraries, lib, held, call, opened, mapping, torn>>

\* The thread drops its shared_ptr.
Release(t, o) ==
  /\ ~torn /\ call[t] = NoCall /\ o \in held[t]
  /\ held' = [held EXCEPT ![t] = @ \ {o}]
  /\ UNCHANGED <<libraries, call, torn>>
  /\ Settle(Gone, NoLib)

-------------------------------------------------------------------------------
Init ==
  /\ libraries = [n \in Names |-> NoLib]
  /\ lib = [o \in Libs |-> Gone]
  /\ held = [t \in Threads |-> {}]
  /\ call = [t \in Threads |-> NoCall]
  /\ opened = [n \in Names |-> 0]
  /\ mapping = [n \in Names |-> 0]
  /\ functions = {}
  /\ torn = FALSE

Next == \E t \in Threads :
  \/ \E n \in Names : LoadLibrary(t, n) \/ UnloadLibrary(t, n)
  \/ Find(t) \/ Insert(t) \/ Inserted(t) \/ Erased(t)
  \/ \E works \in BOOLEAN : MakeLib(t, works)
  \/ \E o \in Libs : GetFunction(t, o) \/ Release(t, o)

Spec == Init /\ [][Next]_vars

-------------------------------------------------------------------------------
(* Properties *)

\* A function may be called from when it is taken for as long as, without a gap, its
\* library is in the map or somebody holds a lib of it, though the lib it was taken
\* from has been replaced and destroyed meanwhile: it is still mapped where it was.
FunctionsStay ==
  \A f \in functions : opened[f.name] > 0 /\ mapping[f.name] = f.mapping

\* The loader has a library open as often as there are objects of it: unload_library
\* and the last shared_ptr together do close it, also after two threads have loaded
\* it at the same time.
OpenedByObjects ==
  \A n \in Names : opened[n] = Cardinality({o \in Libs : lib[o].name = n /\ lib[o].valid})

LibrariesAreOpen == FunctionsStay /\ OpenedByObjects

===============================================================================
