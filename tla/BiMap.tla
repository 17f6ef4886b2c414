---------------------------------- MODULE BiMap ---------------------------------
(***************************************************************************)
(* RF::map<T1, T2> (include/RF/map.ipp): a map that is looked up both      *)
(* ways, kept as two unordered_maps, of which nothing but the code of      *)
(* insert and exsert says that they belong together.                       *)
(***************************************************************************)
EXTENDS Integers, Sequences, Functions

CONSTANTS
  Lists,    \* initializer lists the program makes maps of
  Keys,     \* T1 and
  Values    \* T2, for insert and exsert on a map that starts empty

\* A list is a sequence of pairs.
ListsAssumption ==
  \A l \in Lists : Len(l) \in Nat /\ l = [n \in 1 .. Len(l) |-> <<l[n][1], l[n][2]>>]

VARIABLES
  list,     \* the list it was made of; those that are not empty are const
  forward,  \* forward_map_
  reverse,  \* reverse_map_
  split     \* history: exsert was called with a key and a value of two pairs

vars == <<list, forward, reverse, split>>

-------------------------------------------------------------------------------
\* emplace: a key that is there already stays as it is.
Emplace(map, k, v) == [x \in DOMAIN map \cup {k} |-> IF x \in DOMAIN map THEN map[x] ELSE v]

Erase(map, k) == Restrict(map, DOMAIN map \ {k})

\* The constructor emplaces the pairs one by one, on each side for itself: the
\* first pair with that key, or that value, counts.
First(pairs, i, x) ==
  CHOOSE n \in DOMAIN pairs : pairs[n][i] = x /\ \A m \in 1 .. n - 1 : pairs[m][i] # x

Side(pairs, from, to) ==
  [x \in {pairs[n][from] : n \in DOMAIN pairs} |-> pairs[First(pairs, from, x)][to]]

Init ==
  /\ list \in Lists
  /\ forward = Side(list, 1, 2)
  /\ reverse = Side(list, 2, 1)
  /\ split = FALSE

\* Mutant: only the key is looked for.
Mut_Insert(k, v) ==
  /\ list = <<>>
  /\ k \notin DOMAIN forward
  /\ forward' = Emplace(forward, k, v)
  /\ reverse' = Emplace(reverse, v, k)
  /\ UNCHANGED <<list, split>>

\* Where k or v is there already, nothing changes.
Insert(k, v) ==
  /\ list = <<>>
  /\ k \notin DOMAIN forward /\ v \notin DOMAIN reverse
  /\ forward' = Emplace(forward, k, v)
  /\ reverse' = Emplace(reverse, v, k)
  /\ UNCHANGED <<list, split>>

\* Both have to be there, in whatever pairs.
Exsert(k, v) ==
  /\ list = <<>>
  /\ k \in DOMAIN forward /\ v \in DOMAIN reverse
  /\ forward' = Erase(forward, k)
  /\ reverse' = Erase(reverse, v)
  /\ split' = (split \/ forward[k] # v)
  /\ UNCHANGED list

Next == \E k \in Keys, v \in Values : Insert(k, v) \/ Exsert(k, v)

Spec == Init /\ [][Next]_vars

-------------------------------------------------------------------------------
(* Properties *)

GoesBack(f, g) == \A x \in DOMAIN f : f[x] \in DOMAIN g /\ g[f[x]] = x

\* No two pairs have the same key, or the same value.
OneToOne(pairs, i) ==
  \A m, n \in DOMAIN pairs : pairs[m][i] = pairs[n][i] => pairs[m] = pairs[n]

\* Whoever looks a value up and then its key gets the value back, and the other way
\* round: a key that an event reports is the one that to_keysym() translates.  It
\* takes an exsert of two halves of two pairs to break that, or a list with a value
\* or a key in two pairs, such as the LShift of Cocoa.
MapsAreInverse ==
  ~split =>
    /\ OneToOne(list, 1) => GoesBack(reverse, forward)
    /\ OneToOne(list, 2) => GoesBack(forward, reverse)

===============================================================================
