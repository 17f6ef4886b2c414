---------------------------------- MODULE Mass ----------------------------------
(***************************************************************************)
(* RF::mass<T, N> (include/RF/mass.hpp): up to N elements in raw memory,   *)
(* which the class constructs and destroys itself.                         *)
(*                                                                         *)
(* The constructors of T may throw, that which moves too.  What has been   *)
(* done then stays done.  A T may have no constructor that moves: then     *)
(* std::move copies, and its source keeps its value.  find, find_all and   *)
(* the iterators change no element and are left out.                       *)
(***************************************************************************)
EXTENDS Integers, Sequences, FiniteSets

CONSTANTS
  N,
  Values

CapacityAssumption == N \in Nat \ {0}

VARIABLES
  copies,    \* moving a T copies it; as T is, for good
  exists,    \* the container is alive
  cell,      \* buffer_: nothing, an object, or one that has been moved from
  size,      \* size_
  content,   \* history: what the calls that returned have made of the content
  lost,      \* history: an object with a value was built over or left behind
  twice,     \* history: an object that is not there was moved from or destroyed
  threw      \* history: the operations that have thrown half way

vars == <<copies, exists, cell, size, content, lost, twice, threw>>

Fillings == UNION {[1 .. n -> Values] : n \in 0 .. N}

Raw == [is |-> "raw"]
Moved == [is |-> "moved"]
Object(v) == [is |-> "object", value |-> v]
Cells == {Raw, Moved} \cup {Object(v) : v \in Values}
Objects(c) == {i \in 1 .. N : c[i].is = "object"}

TypeOK ==
  /\ {copies, exists} \subseteq BOOLEAN
  /\ cell \in [1 .. N -> Cells]
  /\ size \in 0 .. N
  /\ content \in Fillings
  /\ {lost, twice} \subseteq BOOLEAN
  /\ threw \subseteq {"copy", "pop", "erase"}

-------------------------------------------------------------------------------
\* The first n cells hold copies of s.
Copied(c, s, n) == [i \in 1 .. N |-> IF i <= n THEN Object(s[i]) ELSE c[i]]

Destroyed(c, n) == [i \in 1 .. N |-> IF i <= n THEN Raw ELSE c[i]]

\* mass() and mass(other), lines 23, 29-35.  When a copy throws there is no
\* container, and no destructor runs for the copies made.
Construct(s) ==
  /\ ~exists
  /\ \/ /\ exists' = TRUE
        /\ cell' = Copied([i \in 1 .. N |-> Raw], s, Len(s))
        /\ size' = Len(s)
        /\ content' = s
        /\ UNCHANGED <<lost, threw>>
     \/ \E n \in 0 .. Len(s) - 1 :
        /\ threw' = threw \cup {"copy"}
        /\ lost' = (lost \/ n > 0)
        /\ UNCHANGED <<exists, cell, size, content>>
  /\ UNCHANGED <<copies, twice>>

\* operator=, lines 37-49: size_ stays zero until all is copied.
Assign(s) ==
  /\ exists
  /\ twice' = (twice \/ \E i \in 1 .. size : cell[i].is = "raw")
  /\ LET cleared == Destroyed(cell, size) IN
     \/ /\ cell' = Copied(cleared, s, Len(s))
        /\ size' = Len(s)
        /\ content' = s
        /\ lost' = (lost \/ \E i \in 1 .. Len(s) : cleared[i].is = "object")
        /\ UNCHANGED threw
     \/ \E n \in 0 .. Len(s) - 1 :
        /\ cell' = Copied(cleared, s, n)
        /\ size' = 0
        /\ content' = <<>>
        /\ lost' = (lost \/ \E i \in 1 .. n : cleared[i].is = "object")
        /\ threw' = threw \cup {"copy"}
  /\ UNCHANGED <<copies, exists>>

\* push_back and emplace_back, lines 54-69.  Where the container is full, or the
\* constructor throws, nothing has changed.
PushBack(v) ==
  /\ exists /\ size < N
  /\ cell' = [cell EXCEPT ![size + 1] = Object(v)]
  /\ size' = size + 1
  /\ content' = Append(content, v)
  /\ lost' = (lost \/ cell[size + 1].is = "object")
  /\ UNCHANGED <<copies, exists, twice, threw>>

\* Lines 71-82: size_ goes down before the move that may throw.
PopBack ==
  /\ exists /\ size > 0
  /\ size' = size - 1
  /\ content' = SubSeq(content, 1, Len(content) - 1)
  /\ twice' = (twice \/ cell[size].is = "raw")
  /\ \/ cell' = [cell EXCEPT ![size] = Raw] /\ UNCHANGED <<threw, lost>>
     \/ threw' = threw \cup {"pop"} /\ UNCHANGED <<cell, lost>>
  /\ UNCHANGED <<copies, exists>>

\* Cells from index on after the first n elements behind it have been moved down.
Shifted(index, n) ==
  [i \in 1 .. N |->
     CASE i \in index .. index + n - 1 -> cell[i + 1]
       [] i = index + n -> IF n = 0 THEN Raw ELSE IF copies THEN cell[i] ELSE Moved
       [] OTHER -> cell[i]]

\* An object with a value is built over when the cells up to last are: it was copied.
Buried(index, last) == copies /\ \E i \in index + 1 .. last : cell[i].is = "object"

\* Mutant: the loop ends one element early.
Mut_Erase(index) ==
  /\ exists /\ index <= size
  /\ twice' = (twice \/ \E i \in index .. size : cell[i].is = "raw")
  /\ content' = [i \in 1 .. Len(content) - 1 |->
                   IF i < index THEN content[i] ELSE content[i + 1]]
  /\ cell' = Shifted(index, IF size - index > 0 THEN size - index - 1 ELSE 0)
  /\ size' = size - 1
  /\ lost' = (lost \/ Buried(index, size - 2))
  /\ UNCHANGED <<copies, exists, threw>>

\* Lines 84-95.  The element is destroyed; each one behind it is moved into the cell
\* before it, built over the one that was moved from there.  The last cell keeps the
\* object that was moved from, or copied.  A move that throws leaves a hole and the size.
Erase(index) ==
  /\ exists /\ index <= size
  /\ twice' = (twice \/ \E i \in index .. size : cell[i].is = "raw")
  /\ content' = [i \in 1 .. Len(content) - 1 |->
                   IF i < index THEN content[i] ELSE content[i + 1]]
  /\ \/ /\ cell' = Shifted(index, size - index)
        /\ size' = size - 1
        /\ lost' = (lost \/ Buried(index, size - 1))
        /\ UNCHANGED threw
     \/ \E n \in 0 .. size - index - 1 :
        /\ cell' = [Shifted(index, n) EXCEPT ![index + n] = Raw]
        /\ lost' = (lost \/ Buried(index, index + n))
        /\ threw' = threw \cup {"erase"}
        /\ UNCHANGED size
  /\ UNCHANGED <<copies, exists>>

\* clear(), and the destructor, which calls it (lines 24, 136-141).
Clear(ends) ==
  /\ exists
  /\ twice' = (twice \/ \E i \in 1 .. size : cell[i].is = "raw")
  /\ cell' = Destroyed(cell, size)
  /\ size' = 0
  /\ content' = <<>>
  /\ exists' = ~ends
  /\ lost' = (lost \/ (ends /\ \E i \in size + 1 .. N : cell[i].is = "object"))
  /\ UNCHANGED <<copies, threw>>

-------------------------------------------------------------------------------
Init ==
  /\ copies \in BOOLEAN
  /\ exists = FALSE
  /\ cell = [i \in 1 .. N |-> Raw]
  /\ size = 0
  /\ content = <<>>
  /\ lost = FALSE
  /\ twice = FALSE
  /\ threw = {}

Next ==
  \/ \E s \in Fillings : Construct(s) \/ Assign(s)
  \/ \E v \in Values : PushBack(v)
  \/ PopBack
  \/ \E index \in 1 .. N : Erase(index)
  \/ \E ends \in BOOLEAN : Clear(ends)

Spec == Init /\ [][Next]_vars

-------------------------------------------------------------------------------
(* Properties *)

\* The container holds what the calls say, in that order, until an erase throws.
HoldsContent ==
  exists /\ "erase" \notin threw =>
    /\ size = Len(content)
    /\ \A i \in 1 .. size : cell[i] = Object(content[i])

\* erase leaves objects behind that no destructor will see, but never one that still
\* has its value: that takes a copy or a pop_back that throws, or a T that is copied
\* where it should be moved, whose last object stays as it was.
OnlyMovedFromAreLeft ==
  \/ lost = FALSE /\ Objects(cell) \subseteq 1 .. size
  \/ copies \/ {"copy", "pop"} \cap threw # {}

\* No object is destroyed, or moved from, that is not there, until an erase throws.
DestroysObjects == twice => "erase" \in threw

ElementsAreAccounted == HoldsContent /\ OnlyMovedFromAreLeft /\ DestroysObjects

===============================================================================
