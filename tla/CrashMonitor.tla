------------------------------ MODULE CrashMonitor ------------------------------
(***************************************************************************)
(* RF::monitor_m on Unix (src/core/monitor.cpp, monitor/*_dialogue): the   *)
(* handler of signals that writes a crash log, shows a dialogue and aborts *)
(* the process.                                                            *)
(*                                                                         *)
(* A signal is blocked on the thread that handles it, by the signal() of   *)
(* the C library; another one interrupts the handler, and other threads    *)
(* have handlers of their own.  The handler never returns: it aborts, or   *)
(* throws.  It allocates memory; where the thread was interrupted inside   *)
(* the allocator it waits for ever.                                        *)
(***************************************************************************)
EXTENDS Integers, Sequences, FiniteSets, FiniteSetsExt

CONSTANTS
  Threads,
  Signals,   \* the signals that activate() installs the handler for
  Faults,    \* those the kernel sends to a thread for what it does itself
  MaxFrames  \* bound on the handlers under way at the same time

SignalAssumption ==
  /\ "ABRT" \in Signals /\ Faults \subseteq Signals \ {"ABRT"}
  /\ Signals \cap {"none", "cut"} = {}

VARIABLES
  handled,   \* the signals that have the handler
  path,      \* save_path_ has been set
  frames,    \* per thread, the handlers under way, the last one on top
  blocked,   \* per thread, its signal mask
  catching,  \* per thread, what std::current_exception() was when its handler began
  log,       \* the file: "none", "cut", or whose log it is
  fate,      \* "running", or how the process has ended
  spoilt,    \* history: a log has been left incomplete, by the disk or by Escape
  rearmed    \* history: activate() has been called while a handler ran

vars == <<handled, path, frames, blocked, catching, log, fate, spoilt, rearmed>>

\* A std::runtime_error, or something else or nothing, which make no difference.
Exceptions == {"none", "runtime"}
Steps == {"Enter", "Rethrow", "Tell", "Write", "Put", "Dialogue", "Abort", "Stuck"}

Depth(t) == Len(frames[t])
Top(t) == frames[t][Depth(t)]
Runs(t) == fate = "running" /\ (frames[t] # <<>> => Top(t).at # "Stuck")
AppRuns(t) == fate = "running" /\ frames[t] = <<>>
At(t, step) == fate = "running" /\ frames[t] # <<>> /\ Top(t).at = step

Room == MapThenSumSet(Depth, Threads) < MaxFrames
Writes(t) == \E i \in 1 .. Depth(t) : frames[t][i].at = "Put"

Go(t, step) == frames' = [frames EXCEPT ![t][Depth(t)].at = step]

-------------------------------------------------------------------------------
(* Signals *)

\* Thread t is given signal s: the handler starts, or the default action ends the
\* process.
Handle(t, s, at, default) ==
  IF s \in handled
  THEN /\ frames' = [frames EXCEPT ![t] = Append(@, [signal |-> s, at |-> at])]
       /\ handled' = IF at = "Stuck" THEN handled \ {"ABRT"} ELSE handled
       /\ blocked' = [blocked EXCEPT ![t] = @ \cup {s}]
       /\ UNCHANGED fate
  ELSE fate' = default /\ UNCHANGED <<handled, frames, blocked>>

\* Where a signal finds the thread: if in the allocator, the handler resets SIGABRT
\* and comes no further than its first allocation (lines 117, 128).
Places == {"Enter", "Stuck"}

\* The application may be handling an exception when the signal comes.
Catching(t) ==
  \E exception \in Exceptions :
    catching' = IF frames[t] = <<>> THEN [catching EXCEPT ![t] = exception] ELSE catching

\* From outside, at any time.
Arrive(t, s) ==
  /\ Runs(t) /\ Room /\ s \notin blocked[t]
  /\ \E at \in Places : Handle(t, s, at, "killed")
  /\ Catching(t)
  /\ UNCHANGED <<path, log, spoilt, rearmed>>

\* A fault that is blocked ends the process.
Fault(t, s) ==
  /\ Runs(t) /\ Room /\ s \in Faults
  /\ IF s \in blocked[t]
     THEN fate' = "killed" /\ UNCHANGED <<handled, frames, blocked>>
     ELSE \E at \in Places : Handle(t, s, at, "killed")
  /\ Catching(t)
  /\ UNCHANGED <<path, log, spoilt, rearmed>>

\* An exception nobody catches: std::terminate and abort(), which unblocks SIGABRT.
Terminate(t) ==
  /\ AppRuns(t) /\ Room
  /\ Handle(t, "ABRT", "Enter", "killed")
  /\ Catching(t)
  /\ UNCHANGED <<path, log, spoilt, rearmed>>

-------------------------------------------------------------------------------
(* activate, lines 18-43, and set_save_path, lines 45-48.  Bound: no more  *)
(* activate() after one that came while a handler ran.  Its calls of       *)
(* std::signal, one for each signal, are one step.                         *)

Activate(t, b) ==
  /\ AppRuns(t) /\ ~rearmed
  /\ handled' = IF b THEN Signals ELSE {}
  /\ rearmed' = (rearmed \/ (b /\ \E u \in Threads : frames[u] # <<>>))
  /\ UNCHANGED <<path, frames, blocked, catching, log, fate, spoilt>>

SetSavePath(t) ==
  /\ AppRuns(t) /\ ~path
  /\ path' = TRUE
  /\ UNCHANGED <<handled, frames, blocked, catching, log, fate, spoilt, rearmed>>

-------------------------------------------------------------------------------
(* handle_crash_, lines 105-140 *)

Mut_Enter(t) ==
  /\ At(t, "Enter")
  /\ UNCHANGED handled
  /\ Go(t, "Rethrow")
  /\ UNCHANGED <<path, blocked, catching, log, fate, spoilt, rearmed>>

\* std::signal(SIGABRT, nullptr)
Enter(t) ==
  /\ At(t, "Enter")
  /\ handled' = handled \ {"ABRT"}
  /\ Go(t, "Rethrow")
  /\ UNCHANGED <<path, blocked, catching, log, fate, spoilt, rearmed>>

\* handle_exception_, lines 142-181: engine_error, runtime_error and
\* std::runtime_error have a dialogue of their own and no log.
Rethrow(t) ==
  /\ At(t, "Rethrow")
  /\ Go(t, IF catching[t] = "runtime" THEN "Tell" ELSE "Write")
  /\ UNCHANGED <<handled, path, blocked, catching, log, fate, spoilt, rearmed>>

\* write_file opens the file, which empties it.
Write(t) ==
  /\ At(t, "Write") /\ path
  /\ log' = "cut"
  /\ Go(t, "Put")
  /\ UNCHANGED <<handled, path, blocked, catching, fate, spoilt, rearmed>>

Put(t) ==
  /\ At(t, "Put")
  /\ \/ log' = Top(t).signal /\ UNCHANGED spoilt
     \/ log' = "cut" /\ spoilt' = TRUE
  /\ Go(t, "Dialogue")
  /\ UNCHANGED <<handled, path, blocked, catching, fate, rearmed>>

\* exception_dialogue_ and crash_dialogue_: the user has seen it, or there is no GTK.
Shown(t) ==
  /\ At(t, "Tell") \/ At(t, "Dialogue")
  /\ Go(t, "Abort")
  /\ UNCHANGED <<handled, path, blocked, catching, log, fate, spoilt, rearmed>>

\* std::abort(): SIGABRT has its default action, or the handler once more.
Abort(t) ==
  /\ At(t, "Abort")
  /\ Handle(t, "ABRT", "Enter", "aborted")
  /\ UNCHANGED <<path, catching, log, spoilt, rearmed>>

\* The file cannot be opened, as when no path has been set, or a dialogue does not
\* find what it needs in the GTK library: a runtime_error leaves the handler.  It
\* ends in std::terminate, or, when the interrupted code happens to be where it can
\* be unwound, in a catch of the application, which goes on with the signals of all
\* its handlers still blocked.
Escape(t) ==
  /\ At(t, "Write") \/ At(t, "Tell") \/ At(t, "Dialogue")
  /\ \/ /\ catching' = [catching EXCEPT ![t] = "runtime"]
        /\ Handle(t, "ABRT", "Enter", "terminated")
        /\ UNCHANGED spoilt
     \/ /\ catching' = [catching EXCEPT ![t] = "none"]
        /\ frames' = [frames EXCEPT ![t] = <<>>]
        /\ spoilt' = (spoilt \/ Writes(t))
        /\ UNCHANGED <<handled, blocked, fate>>
  /\ UNCHANGED <<path, log, rearmed>>

-------------------------------------------------------------------------------
Init ==
  /\ handled = {}
  /\ path = FALSE
  /\ frames = [t \in Threads |-> <<>>]
  /\ blocked = [t \in Threads |-> {}]
  /\ catching = [t \in Threads |-> "none"]
  /\ log = "none"
  /\ fate = "running"
  /\ spoilt = FALSE
  /\ rearmed = FALSE

Next == \E t \in Threads :
  \/ \E s \in Signals : Arrive(t, s) \/ Fault(t, s)
  \/ Terminate(t)
  \/ \E b \in BOOLEAN : Activate(t, b)
  \/ SetSavePath(t)
  \/ Enter(t) \/ Rethrow(t) \/ Write(t) \/ Put(t) \/ Shown(t) \/ Abort(t) \/ Escape(t)

Spec == Init /\ [][Next]_vars

-------------------------------------------------------------------------------
(* Properties *)

\* Who tells the user of a crash has written the log, as a whole, unless one has been
\* left incomplete: the file can be without one only because somebody else, on another thread
\* or on top, is writing his.
LogBeforeDialogue ==
  \A t \in Threads : At(t, "Dialogue") =>
    /\ log # "none"
    /\ log = "cut" => spoilt \/ \E u \in Threads : Writes(u)

\* A process that its handler has aborted leaves a log, or the user was told of an
\* exception; with the same exceptions.
LeavesLog ==
  fate = "aborted" =>
    \/ log \in Signals \/ spoilt
    \/ \E t \in Threads : Writes(t)
    \/ \E t \in Threads : catching[t] = "runtime" /\ frames[t] # <<>> /\ Top(t).at = "Abort"

\* The handler of a signal is not entered again by what happens in it, so that it
\* comes to an end, unless the application activates the monitor again meanwhile.
NotEnteredTwice ==
  ~rearmed => \A t \in Threads : \A i, j \in 1 .. Depth(t) :
    frames[t][i].signal = frames[t][j].signal => i = j

CrashIsReported == LogBeforeDialogue /\ LeavesLog /\ NotEnteredTwice

===============================================================================
