-------------------------------- MODULE FileStore -------------------------------
(***************************************************************************)
(* RF::file_m (src/core/file.cpp): files written, deleted and renamed      *)
(* through C and C++ streams.  The disk may fail at every step, or the     *)
(* process end between two of them.  What only looks (exists, files,       *)
(* file_size, home_path) is left out, and so are directories.              *)
(***************************************************************************)
EXTENDS Integers, Sequences, SequencesExt

CONSTANTS
  Paths,
  Contents,  \* what the application writes: sequences of characters, "n" a newline
  MaxSize    \* bound on the size of a file that is appended to, or renamed

ContentsAssumption == Contents \subseteq Seq(STRING)

VARIABLES
  windows,   \* the platform: text is written with CR LF
  file,      \* the disk: path -> content, or Absent
  job        \* the call under way, or the last one, which has ended

vars == <<windows, file, job>>

Absent == <<"absent">>
NoJob  == [op |-> "none", at |-> "returned"]
Busy   == job.at \in {"Read", "Delete", "Open", "Put"}
Renames == job.op = "rename"

\* A stream that is not opened as binary translates what it writes.
Text(content) ==
  IF windows
  THEN FlattenSeq([i \in DOMAIN content |->
                     IF content[i] = "n" THEN <<"r", "n">> ELSE <<content[i]>>])
  ELSE content

Zeros(content) == [i \in DOMAIN content |-> "0"]

\* The next step of the call, or its end: "returned", "threw", or "ended" with the
\* process.  A fault hurts a rename that has no copy of the content but in memory.
Go(at) == job' = [job EXCEPT !.at = at]
Fail(at, fault) ==
  job' = [job EXCEPT !.at = at,
            !.hurt = IF Renames /\ job.at \in {"Open", "Put"} THEN @ \cup {fault} ELSE @]

Start(op, at, src, dst, content, overwrite) ==
  /\ ~Busy
  /\ overwrite \/ file[dst] = Absent \/ Len(file[dst]) <= MaxSize
  /\ job' = [op |-> op, at |-> at, src |-> src, dst |-> dst, content |-> content,
             overwrite |-> overwrite, was |-> file[src], hurt |-> {}]
  /\ UNCHANGED <<windows, file>>

-------------------------------------------------------------------------------
\* write_file, lines 137-153; create_file (line 92) writes nothing.
WriteFile(path, content, overwrite) ==
  Start("write", "Open", path, path, content, overwrite)

\* The caller's delete_file, lines 95-100.
DeleteFile(path) ==
  /\ ~Busy /\ file[path] # Absent
  /\ file' = [file EXCEPT ![path] = Absent]
  /\ job' = NoJob
  /\ UNCHANGED windows

\* Mutant: the content is appended to what is at the destination.
Mut_RenameFile(src, dst) ==
  Len(file[src]) <= MaxSize /\ Start("rename", "Read", src, dst, <<>>, FALSE)

\* rename_file, lines 102-111.
RenameFile(src, dst) ==
  Len(file[src]) <= MaxSize /\ Start("rename", "Read", src, dst, <<>>, TRUE)

\* read_file, lines 113-135: nobody asks whether file.read() has worked, and what it
\* has not read is zero.
Read ==
  /\ job.at = "Read"
  /\ \/ Go("threw")
     \/ /\ file[job.src] # Absent
        /\ \/ job' = [job EXCEPT !.at = "Delete", !.content = file[job.src]]
           \/ /\ file[job.src] # <<>>
              /\ job' = [job EXCEPT !.at = "Delete", !.content = Zeros(file[job.src]),
                                    !.hurt = {"read"}]
  /\ UNCHANGED <<windows, file>>

Delete ==
  /\ job.at = "Delete"
  /\ \/ file' = [file EXCEPT ![job.src] = Absent] /\ Go("Open")
     \/ UNCHANGED file /\ Go("threw")
  /\ UNCHANGED windows

\* file.open(): with trunc what was there is gone.
Open ==
  /\ job.at = "Open"
  /\ \/ /\ file' = [file EXCEPT ![job.dst] =
                      IF job.overwrite \/ @ = Absent THEN <<>> ELSE @]
        /\ Go("Put")
     \/ UNCHANGED file /\ Fail("threw", "open")
  /\ UNCHANGED windows

\* file << content and close(): on a full disk a part is written and nobody is told.
Put ==
  /\ job.at = "Put"
  /\ \E n \in 0 .. Len(Text(job.content)) :
       /\ file' = [file EXCEPT ![job.dst] = @ \o SubSeq(Text(job.content), 1, n)]
       /\ IF n = Len(Text(job.content)) THEN Go("returned") ELSE Fail("returned", "full")
  /\ UNCHANGED windows

\* The process ends, by a signal say, and is started again.
Crash ==
  /\ Busy
  /\ Fail("ended", "crash")
  /\ UNCHANGED <<windows, file>>

-------------------------------------------------------------------------------
Init ==
  /\ windows \in BOOLEAN
  /\ file = [p \in Paths |-> Absent]
  /\ job = NoJob

Next ==
  \/ \E path \in Paths, content \in Contents, overwrite \in BOOLEAN :
       WriteFile(path, content, overwrite)
  \/ \E path \in Paths : DeleteFile(path)
  \/ \E src, dst \in Paths : RenameFile(src, dst)
  \/ Read \/ Delete \/ Open \/ Put \/ Crash

Spec == Init /\ [][Next]_vars

-------------------------------------------------------------------------------
(* Properties *)

\* The content of a file that is renamed is not lost.  As long as the call is under
\* way it is whole, in the file or in memory.  When it has ended it is at the
\* destination, as text, if the call has returned, and at the source if not; unless
\* a fault has come after the deletion and before the end of the write, or the file
\* could not be read.
ContentSurvives ==
  Renames /\ job.hurt = {} =>
    CASE job.at \in {"Read", "threw", "ended"} -> file[job.src] = job.was
      [] job.at = "Delete"   -> file[job.src] = job.was /\ job.content = job.was
      [] job.at = "Open"     -> job.content = job.was
      [] job.at = "Put"      -> job.content = job.was /\ file[job.dst] = <<>>
      [] job.at = "returned" -> file[job.dst] = Text(job.was)

===============================================================================
