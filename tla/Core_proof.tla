------------------------------- MODULE Core_proof ------------------------------
(***************************************************************************)
(* Theorems about the parts of RedFoxParts that are no graphics: dynamic   *)
(* libraries of any number of threads, the containers of any size, files   *)
(* of any content, datagrams of any messages and of numbers of any width,  *)
(* the crash monitor of any threads and signals.  Each is first proved of  *)
(* the part alone and then of every behaviour of RedFoxParts.              *)
(***************************************************************************)
EXTENDS RedFoxParts, Sequences, SequencesExt, SequenceTheorems, FiniteSetTheorems,
        WellFoundedInduction, NaturalsInduction, TLAPS

-------------------------------------------------------------------------------
\* A set of natural numbers has a least one.
LEMMA LeastNumber ==
  ASSUME NEW S \in SUBSET Nat, S # {}
  PROVE  \E n \in S : \A m \in S : n <= m
  <1> DEFINE R == OpToRel(<, Nat)
  <1>1. IsWellFoundedOn(R, Nat)
    BY NatLessThanWellFounded, Zenon
  <1>2. \A m, n \in Nat : m < n => <<m, n>> \in R
    BY DEF OpToRel
  <1> HIDE DEF R
  <1>3. PICK n \in S : \A m \in S : ~(<<m, n>> \in R)
    BY <1>1, WFMin
  <1>4. \A m \in S : ~(m < n)
    BY <1>2, <1>3
  <1> QED
    BY <1>4

\* A set that holds 0 and with each number the next holds all numbers up to n.
LEMMA CountingUp ==
  ASSUME NEW n \in Nat, NEW S, 0 \in S, \A i \in 1 .. n : i - 1 \in S => i \in S
  PROVE  \A i \in 0 .. n : i \in S
  <1> DEFINE T == {m \in Nat : m \in 0 .. n /\ m \notin S}
  <1> SUFFICES ASSUME T # {} PROVE FALSE
    OBVIOUS
  <1>1. PICK m \in T : \A k \in T : m <= k
    BY LeastNumber
  <1>2. m # 0 /\ m - 1 \in Nat /\ m - 1 \in 0 .. n /\ m \in 1 .. n /\ ~(m <= m - 1)
    OBVIOUS
  <1>3. m - 1 \in S
    BY <1>1, <1>2
  <1> QED
    BY <1>2, <1>3

\* A recursive function on the numbers up to n is there.
Iterates(f, n, base, step) ==
  f = [i \in 0 .. n |-> IF i = 0 THEN base ELSE step[<<f[i - 1], i>>]]

LEMMA Iteration ==
  ASSUME NEW n \in Nat, NEW V, NEW base \in V, NEW step \in [V \X (1 .. n) -> V]
  PROVE  \E f \in [0 .. n -> V] : Iterates(f, n, base, step)
  <1> DEFINE S == {m \in 0 .. n : \E f \in [0 .. m -> V] : Iterates(f, m, base, step)}
  <1>1. 0 \in S
    <2> DEFINE z == [i \in 0 .. 0 |-> base]
    <2>1. z \in [0 .. 0 -> V] /\ Iterates(z, 0, base, step)
      BY DEF Iterates
    <2> QED
      BY <2>1
  <1>2. ASSUME NEW m \in 1 .. n, m - 1 \in S
        PROVE  m \in S
    <2>1. PICK f \in [0 .. m - 1 -> V] : Iterates(f, m - 1, base, step)
      BY <1>2
    <2> DEFINE x == step[<<f[m - 1], m>>]
               g == [i \in 0 .. m |-> IF i = m THEN x ELSE f[i]]
    <2>2. x \in V
      OBVIOUS
    <2>3. g \in [0 .. m -> V]
      <3> HIDE DEF x
      <3> QED
        BY <2>2
    <2>4. ASSUME NEW i \in 0 .. m
          PROVE  g[i] = IF i = 0 THEN base ELSE step[<<g[i - 1], i>>]
      <3>1. CASE i = m
        <4>1. i # 0 /\ i - 1 \in 0 .. m /\ i - 1 # m
          BY <3>1
        <4> QED
          BY <3>1, <4>1
      <3>2. CASE i # m
        <4>1. i \in 0 .. m - 1 /\ g[i] = f[i]
          BY <3>2
        <4>2. f[i] = IF i = 0 THEN base ELSE step[<<f[i - 1], i>>]
          BY <4>1, <2>1 DEF Iterates
        <4>3. i # 0 => i - 1 \in 0 .. m /\ i - 1 # m
          BY <4>1
        <4>4. i # 0 => g[i - 1] = f[i - 1]
          BY <4>3
        <4> HIDE DEF g
        <4> QED
          BY <4>1, <4>2, <4>4
      <3> QED
        BY <3>1, <3>2
    <2>5. g = [i \in 0 .. m |-> g[i]]
      OBVIOUS
    <2> HIDE DEF g
    <2>6. Iterates(g, m, base, step)
      BY <2>4, <2>5 DEF Iterates
    <2> QED
      BY <2>3, <2>6
  <1> HIDE DEF S
  <1>3. n \in S
    BY <1>1, <1>2, CountingUp
  <1> QED
    BY <1>3 DEF S

-------------------------------------------------------------------------------
(* Dynamic libraries                                                       *)

Objects == [name : Names \cup {"none"}, valid : BOOLEAN]

Places == {"None", "Finding", "Missing", "Made", "Inserting", "Erasing"}

LibraryShape ==
  /\ libraries \in [Names -> Libs \cup {LC!NoLib}]
  /\ lib \in [Libs -> Objects]
  /\ held \in [Threads -> SUBSET Libs]
  /\ call \in [Threads -> [at : Places, name : Names \cup {"none"}, obj : Libs \cup {LC!NoLib}]]
  /\ \A t \in Threads : call[t].at # "None" => call[t].name \in Names
  /\ opened \in [Names -> Int] /\ mapping \in [Names -> Int]
  /\ functions \subseteq [name : Names, mapping : Int]

Valid(n) == {o \in Libs : lib[o].name = n /\ lib[o].valid}

\* An object in the map, or on its way into it, is valid and of that name.
MapIsValid ==
  /\ \A o \in Libs : lib[o].valid => lib[o].name \in Names
  /\ \A n \in Names : libraries[n] # LC!NoLib => libraries[n] \in Valid(n)
  /\ \A t \in Threads :
       IF call[t].at \in {"Made", "Inserting"}
       THEN call[t].obj \in Valid(call[t].name) ELSE call[t].obj = LC!NoLib

\* Functions that may be called are of libraries that are covered.
FunctionsCovered ==
  \A f \in functions : LC!Covered(f.name) /\ mapping[f.name] = f.mapping

LibraryInv == LibraryShape /\ MapIsValid /\ FunctionsCovered /\ LC!OpenedByObjects

-------------------------------------------------------------------------------
\* The instance counts as FiniteSets does.
LEMMA SameFinite ==
  ASSUME NEW S
  PROVE  LC!IsFiniteSet(S) <=> IsFiniteSet(S)
  BY DEF LC!IsFiniteSet, IsFiniteSet

LEMMA SameCardinality ==
  ASSUME NEW S
  PROVE  LC!Cardinality(S) = Cardinality(S)
  BY DEF LC!Cardinality, Cardinality

\* What is covered is open.
LEMMA CoveredIsOpen ==
  ASSUME LC!LibsAssumption, LibraryShape, MapIsValid, LC!OpenedByObjects, NEW n \in Names, LC!Covered(n)
  PROVE  opened[n] > 0
  <1>1. \E o \in Libs : o \in Valid(n)
    BY DEF LC!Covered, MapIsValid, Valid, LibraryShape
  <1>2. IsFiniteSet(Valid(n))
    BY SameFinite, FS_Subset DEF LC!LibsAssumption, Valid
  <1>3. Cardinality(Valid(n)) \in Nat /\ Cardinality(Valid(n)) # 0
    BY <1>1, <1>2, FS_CardinalityType, FS_EmptySet
  <1> QED
    BY <1>3, SameCardinality DEF LC!OpenedByObjects, Valid

\* The end of a step: the loader has a library open once for each of its objects.
LEMMA SettledIsOpen ==
  ASSUME LC!LibsAssumption, LibraryInv, NEW made \in Objects, NEW by \in Libs \cup {LC!NoLib},
         LC!Settle(made, by),
         made.valid => made.name \in Names,
         by \in Libs => ~lib[by].valid /\ LC!Has(by)',
         by = LC!NoLib => ~made.valid
  PROVE  /\ lib' \in [Libs -> Objects]
         /\ \A o \in Libs : LC!Has(o)' => lib'[o] = IF o = by THEN made ELSE lib[o]
         /\ \A o \in Libs : lib'[o].valid => lib'[o].name \in Names
         /\ opened' \in [Names -> Int]
         /\ mapping' \in [Names -> Int]
         /\ \A n \in Names : opened[n] > 0 => mapping'[n] = mapping[n]
         /\ LC!OpenedByObjects'
  <1>1. lib' = [o \in Libs |-> IF ~LC!Has(o)' THEN LC!Gone ELSE IF o = by THEN made ELSE lib[o]]
    BY DEF LC!Settle
  <1>2. LC!Gone \in Objects /\ ~LC!Gone.valid
    BY DEF LC!Gone, Objects
  <1>3. lib' \in [Libs -> Objects]
    BY <1>1, <1>2 DEF LibraryInv, LibraryShape
  <1>4. \A o \in Libs : lib'[o].valid => lib'[o].name \in Names
    BY <1>1, <1>2 DEF LibraryInv, MapIsValid
  <1>5. ASSUME NEW n \in Names
        PROVE  opened'[n] \in Int /\ opened'[n] = Cardinality({o \in Libs : lib'[o].name = n /\ lib'[o].valid})
    <2> DEFINE V  == {o \in Libs : lib[o].name = n /\ lib[o].valid}
               D  == {o \in Libs : lib[o].name = n /\ lib[o].valid /\ ~LC!Has(o)'}
               W  == {o \in Libs : lib'[o].name = n /\ lib'[o].valid}
               is == made.valid /\ made.name = n
    <2>1. opened'[n] = opened[n] - Cardinality(D) + (IF is THEN 1 ELSE 0)
      BY SameCardinality DEF LC!Settle
    <2>2. opened[n] = Cardinality(V)
      BY SameCardinality DEF LibraryInv, LC!OpenedByObjects
    <2>3. D \subseteq V /\ V \ D \subseteq Libs
      OBVIOUS
    <2>4. W = (V \ D) \cup (IF is THEN {by} ELSE {})
      <3>1. \A o \in Libs : LC!Has(o)' /\ o # by => (o \in W <=> o \in V)
        BY <1>1
      <3>2. \A o \in Libs : ~LC!Has(o)' => o \notin W /\ o \notin V \ D
        BY <1>1, <1>2
      <3>3. by \in Libs => by \notin V /\ (by \in W <=> is)
        BY <1>1
      <3>4. is => by \in Libs
        BY DEF LC!LibsAssumption
      <3> QED
        BY <3>1, <3>2, <3>3, <3>4
    <2>5. by \notin V
      BY DEF LC!LibsAssumption
    <2> HIDE DEF V, D, W, is
    <2>6. /\ IsFiniteSet(V) /\ IsFiniteSet(D) /\ IsFiniteSet(V \ D)
          /\ Cardinality(V \ D) = Cardinality(V) - Cardinality(D)
          /\ Cardinality(D) \in Nat /\ Cardinality(V) \in Nat /\ Cardinality(V \ D) \in Nat
      <3>1. V \subseteq Libs
        BY DEF V
      <3>2. IsFiniteSet(V)
        BY <3>1, SameFinite, FS_Subset DEF LC!LibsAssumption
      <3>3. IsFiniteSet(D) /\ IsFiniteSet(V \ D)
        BY <2>3, <3>2, FS_Subset
      <3>4. (V \ D) \cup D = V /\ (V \ D) \cap D = {}
        BY <2>3
      <3>5. Cardinality(V) = Cardinality(V \ D) + Cardinality(D) - Cardinality({})
        BY <3>3, <3>4, FS_Union
      <3>6. Cardinality({}) = 0
        BY FS_EmptySet
      <3>7. Cardinality(D) \in Nat /\ Cardinality(V) \in Nat /\ Cardinality(V \ D) \in Nat
        BY <3>2, <3>3, FS_CardinalityType
      <3> QED
        BY <3>2, <3>3, <3>5, <3>6, <3>7
    <2>7. Cardinality(W) = Cardinality(V \ D) + (IF is THEN 1 ELSE 0)
      <3>1. CASE is
        <4>1. W = (V \ D) \cup {by} /\ by \notin V \ D
          BY <2>4, <2>5, <3>1
        <4>2. Cardinality((V \ D) \cup {by}) = Cardinality(V \ D) + 1
          BY <2>6, <4>1, FS_AddElement
        <4> QED
          BY <3>1, <4>1, <4>2
      <3>2. CASE ~is
        BY <2>4, <2>6, <3>2
      <3> QED
        BY <3>1, <3>2
    <2>8. opened'[n] = Cardinality(W) /\ opened'[n] \in Int
      BY <2>1, <2>2, <2>6, <2>7
    <2> QED
      BY <2>8 DEF W
  <1>6. opened' \in [Names -> Int]
    BY <1>5 DEF LC!Settle
  <1>7. mapping' = [n \in Names |->
                      mapping[n] + (IF opened[n] = 0 /\ opened'[n] > 0 THEN 1 ELSE 0)]
    BY DEF LC!Settle
  <1>8. mapping' \in [Names -> Int]
    BY <1>7 DEF LibraryInv, LibraryShape
  <1>9. \A n \in Names : opened[n] > 0 => mapping'[n] = mapping[n]
    BY <1>7 DEF LibraryInv, LibraryShape
  <1>10. LC!OpenedByObjects'
    BY <1>5, SameCardinality DEF LC!OpenedByObjects
  <1> QED
    BY <1>1, <1>3, <1>4, <1>6, <1>8, <1>9, <1>10

\* Functions are forgotten with their library, and stay where they are until then.
LEMMA SettledFunctions ==
  ASSUME LC!LibsAssumption, LibraryInv, NEW made, NEW by, LC!Settle(made, by),
         \A n \in Names : opened[n] > 0 => mapping'[n] = mapping[n]
  PROVE  FunctionsCovered' /\ functions' \subseteq functions
  <1>1. functions' \subseteq functions /\ \A f \in functions' : LC!Covered(f.name)'
    BY DEF LC!Settle
  <1>2. \A f \in functions' : mapping'[f.name] = mapping[f.name]
    BY <1>1, CoveredIsOpen DEF LibraryInv, LibraryShape, FunctionsCovered
  <1> QED
    BY <1>1, <1>2 DEF LibraryInv, FunctionsCovered

-------------------------------------------------------------------------------
\* The steps that only enter the map.
LEMMA EnterIInv ==
  ASSUME LC!LibsAssumption, LibraryInv, NEW t \in Threads, NEW to \in Places \ {"None"}, NEW n \in Names,
         NEW obj \in Libs \cup {LC!NoLib}, LC!Enter(t, to, n, obj),
         UNCHANGED <<lib, held, opened, mapping, functions>>,
         IF to \in {"Made", "Inserting"} THEN obj \in Valid(n) ELSE obj = LC!NoLib
  PROVE  LibraryInv'
  <1>1. /\ call' \in [Threads -> [at : Places, name : Names \cup {"none"},
                                  obj : Libs \cup {LC!NoLib}]]
        /\ call'[t] = [at |-> to, name |-> n, obj |-> obj]
        /\ \A u \in Threads \ {t} : call'[u] = call[u]
        /\ UNCHANGED <<libraries, lib, held, opened, mapping, functions>>
    BY DEF LC!Enter, LibraryInv, LibraryShape
  <1>2. LibraryShape'
    BY <1>1 DEF LibraryInv, LibraryShape
  <1>3. MapIsValid'
    BY <1>1 DEF LibraryInv, MapIsValid, Valid
  <1>4. FunctionsCovered' /\ LC!OpenedByObjects'
    BY <1>1 DEF LibraryInv, FunctionsCovered, LC!OpenedByObjects, LC!Covered
  <1> QED
    BY <1>2, <1>3, <1>4 DEF LibraryInv

\* Steps after which objects are made or destroyed.
LEMMA SettleIInv ==
  ASSUME LC!LibsAssumption, LibraryInv, NEW made \in Objects, NEW by \in Libs \cup {LC!NoLib},
         LC!Settle(made, by),
         made.valid => made.name \in Names,
         by \in Libs => ~lib[by].valid /\ LC!Has(by)',
         by = LC!NoLib => ~made.valid,
         libraries' \in [Names -> Libs \cup {LC!NoLib}],
         held' \in [Threads -> SUBSET Libs],
         call' \in [Threads -> [at : Places, name : Names \cup {"none"},
                               obj : Libs \cup {LC!NoLib}]],
         \A t \in Threads : call'[t].at # "None" => call'[t].name \in Names,
         \A n \in Names : libraries'[n] # LC!NoLib => libraries'[n] \in Valid(n),
         \A t \in Threads :
           IF call'[t].at \in {"Made", "Inserting"}
           THEN \/ call'[t].obj \in Valid(call'[t].name)
                \/ call'[t].obj = by /\ made = [name |-> call'[t].name, valid |-> TRUE]
           ELSE call'[t].obj = LC!NoLib
  PROVE  LibraryInv'
  <1>1. /\ lib' \in [Libs -> Objects]
        /\ \A o \in Libs : LC!Has(o)' => lib'[o] = IF o = by THEN made ELSE lib[o]
        /\ \A o \in Libs : lib'[o].valid => lib'[o].name \in Names
        /\ opened' \in [Names -> Int]
        /\ mapping' \in [Names -> Int]
        /\ \A n \in Names : opened[n] > 0 => mapping'[n] = mapping[n]
        /\ LC!OpenedByObjects'
    BY SettledIsOpen
  <1>2. FunctionsCovered' /\ functions' \subseteq functions
    BY <1>1, SettledFunctions
  <1>3. LibraryShape'
    BY <1>1, <1>2 DEF LibraryInv, LibraryShape
  <1>4. MapIsValid'
    <2>1. ASSUME NEW n \in Names, libraries'[n] # LC!NoLib
          PROVE  libraries'[n] \in Libs /\ lib'[libraries'[n]].name = n
                 /\ lib'[libraries'[n]].valid
      <3>1. libraries'[n] \in Libs /\ LC!Has(libraries[n])'
        BY <2>1 DEF LC!Has
      <3>2. libraries'[n] \in Valid(n) /\ libraries'[n] # by
        BY <2>1, <3>1 DEF Valid
      <3> QED
        BY <1>1, <3>1, <3>2 DEF Valid
    <2>2. ASSUME NEW t \in Threads, call'[t].at \in {"Made", "Inserting"}
          PROVE  call'[t].obj \in Libs /\ lib'[call'[t].obj].name = call'[t].name
                 /\ lib'[call'[t].obj].valid
      <3>1. call'[t].obj # LC!NoLib
        BY <2>2 DEF Valid, LC!LibsAssumption
      <3>2. call'[t].obj \in Libs /\ LC!Has(call[t].obj)'
        BY <3>1 DEF LC!Has
      <3>3. CASE call'[t].obj = by
        BY <1>1, <2>2, <3>2, <3>3 DEF Valid
      <3>4. CASE call'[t].obj # by
        BY <1>1, <2>2, <3>2, <3>4 DEF Valid
      <3> QED
        BY <3>3, <3>4
    <2> QED
      BY <1>1, <2>1, <2>2 DEF MapIsValid, Valid
  <1> QED
    BY <1>1, <1>2, <1>3, <1>4 DEF LibraryInv

-------------------------------------------------------------------------------
LEMMA LibraryInitInv ==
  ASSUME LC!LibsAssumption, LC!Init
  PROVE  LibraryInv
  <1>1. LC!Gone \in Objects /\ ~LC!Gone.valid
    BY DEF LC!Gone, Objects
  <1>2. LibraryShape
    BY <1>1 DEF LC!Init, LibraryShape, LC!NoCall, Places, LC!NoLib
  <1>3. MapIsValid /\ FunctionsCovered
    BY <1>1 DEF LC!Init, MapIsValid, FunctionsCovered, LC!NoCall
  <1>4. \A n \in Names : {o \in Libs : lib[o].name = n /\ lib[o].valid} = {}
    BY <1>1 DEF LC!Init
  <1>5. LC!OpenedByObjects
    BY <1>4, SameCardinality, FS_EmptySet DEF LC!Init, LC!OpenedByObjects
  <1> QED
    BY <1>2, <1>3, <1>5 DEF LibraryInv

LEMMA LibraryStepInv ==
  ASSUME LC!LibsAssumption, LibraryInv, [LC!Next]_(LC!vars)
  PROVE  LibraryInv'
  <1> USE DEF LibraryInv
  <1>g. LC!Gone \in Objects /\ ~LC!Gone.valid /\ LC!Gone.name = "none"
    BY DEF LC!Gone, Objects
  <1>n. LC!NoLib \in Libs \cup {LC!NoLib} /\ LC!NoLib \notin Libs
    BY DEF LC!LibsAssumption
  <1>1. ASSUME NEW t \in Threads, NEW n \in Names, LC!LoadLibrary(t, n) \/ LC!UnloadLibrary(t, n)
        PROVE  LibraryInv'
    BY <1>1, EnterIInv DEF LC!LoadLibrary, LC!UnloadLibrary, Places
  <1>2. ASSUME NEW t \in Threads, LC!Find(t)
        PROVE  LibraryInv'
    <2> DEFINE o == libraries[call[t].name]
    <2>1. /\ UNCHANGED <<libraries, lib, opened, mapping, functions>>
          /\ call[t].at = "Finding" /\ call[t].name \in Names /\ call[t].obj = LC!NoLib
      BY <1>2 DEF LC!Find, LibraryShape, MapIsValid
    <2>2. CASE o # LC!NoLib
      <3>1. /\ held' = [held EXCEPT ![t] = @ \cup {o}]
            /\ call' = [call EXCEPT ![t] = LC!NoCall] /\ o \in Libs
        BY <1>2, <2>1, <2>2 DEF LC!Find, LibraryShape
      <3>2. LibraryShape'
        BY <2>1, <3>1 DEF LibraryShape, LC!NoCall, Places, LC!NoLib
      <3>3. MapIsValid' /\ LC!OpenedByObjects'
        BY <2>1, <3>1 DEF LibraryShape, MapIsValid, Valid, LC!OpenedByObjects, LC!NoCall
      <3>4. \A n \in Names : LC!Covered(n) => LC!Covered(n)'
        BY <2>1, <3>1 DEF LC!Covered, LibraryShape
      <3> QED
        BY <2>1, <3>2, <3>3, <3>4 DEF FunctionsCovered, LibraryShape
    <2>3. CASE o = LC!NoLib
      <3>1. UNCHANGED held /\ call' = [call EXCEPT ![t].at = "Missing"]
        BY <1>2, <2>3 DEF LC!Find
      <3>2. LibraryShape'
        BY <2>1, <3>1 DEF LibraryShape, Places
      <3>3. MapIsValid' /\ LC!OpenedByObjects' /\ FunctionsCovered'
        BY <2>1, <3>1 DEF LibraryShape, MapIsValid, Valid, LC!OpenedByObjects, FunctionsCovered, LC!Covered
      <3> QED
        BY <3>2, <3>3
    <2> QED
      BY <2>2, <2>3
  <1>3. ASSUME NEW t \in Threads, LC!MakeLib(t, TRUE)
        PROVE  LibraryInv'
    <2> DEFINE made == [name |-> call[t].name, valid |-> TRUE]
    <2>1. PICK o \in Libs :
            /\ lib[o] = LC!Gone
            /\ call' = [call EXCEPT ![t].at = "Made", ![t].obj = o]
            /\ UNCHANGED <<held, libraries>>
            /\ LC!Settle(made, o)
      BY <1>3 DEF LC!MakeLib
    <2>2. call[t].at = "Missing" /\ call[t].name \in Names
      BY <1>3 DEF LC!MakeLib, LibraryShape
    <2>3. made \in Objects /\ (made.valid => made.name \in Names)
      BY <2>2 DEF Objects
    <2>4. /\ call' \in [Threads -> [at : Places, name : Names \cup {"none"},
                                   obj : Libs \cup {LC!NoLib}]]
          /\ call'[t] = [at |-> "Made", name |-> call[t].name, obj |-> o]
          /\ \A u \in Threads \ {t} : call'[u] = call[u]
      BY <2>1, <2>2 DEF LibraryShape, Places
    <2>5. /\ held' \in [Threads -> SUBSET Libs]
          /\ libraries' \in [Names -> Libs \cup {LC!NoLib}]
          /\ \A u \in Threads : call'[u].at # "None" => call'[u].name \in Names
      BY <2>1, <2>2, <2>4 DEF LibraryShape
    <2>6. ~lib[o].valid /\ LC!Has(o)'
      BY <1>g, <2>1, <2>4 DEF LC!Has, LibraryShape
    <2>7. \A n \in Names : libraries'[n] # LC!NoLib => libraries'[n] \in Valid(n)
      BY <2>1 DEF MapIsValid
    <2>8. \A u \in Threads :
            IF call'[u].at \in {"Made", "Inserting"}
            THEN \/ call'[u].obj \in Valid(call'[u].name)
                 \/ call'[u].obj = o /\ made = [name |-> call'[u].name, valid |-> TRUE]
            ELSE call'[u].obj = LC!NoLib
      <3>1. \A u \in Threads \ {t} :
              IF call'[u].at \in {"Made", "Inserting"}
              THEN call'[u].obj \in Valid(call'[u].name) ELSE call'[u].obj = LC!NoLib
        BY <2>4 DEF MapIsValid
      <3>2. /\ call'[t].at = "Made" /\ call'[t].obj = o
            /\ made = [name |-> call'[t].name, valid |-> TRUE]
        BY <2>4
      <3> HIDE DEF made
      <3> QED
        BY <3>1, <3>2
    <2> HIDE DEF made
    <2> QED
      BY <1>n, <2>1, <2>3, <2>4, <2>5, <2>6, <2>7, <2>8, SettleIInv
  <1>10. ASSUME NEW t \in Threads, LC!MakeLib(t, FALSE)
        PROVE  LibraryInv'
    <2> DEFINE made == [name |-> call[t].name, valid |-> FALSE]
    <2>1. PICK o \in Libs :
            /\ lib[o] = LC!Gone
            /\ call' = [call EXCEPT ![t] = LC!NoCall]
            /\ held' = [held EXCEPT ![t] = @ \cup {o}]
            /\ UNCHANGED libraries
            /\ LC!Settle(made, o)
      BY <1>10 DEF LC!MakeLib
    <2>2. call[t].at = "Missing" /\ call[t].name \in Names
      BY <1>10 DEF LC!MakeLib, LibraryShape
    <2>3. made \in Objects /\ (made.valid => made.name \in Names)
      BY <2>2 DEF Objects
    <2>4. /\ call' \in [Threads -> [at : Places, name : Names \cup {"none"},
                                   obj : Libs \cup {LC!NoLib}]]
          /\ call'[t] = LC!NoCall
          /\ \A u \in Threads \ {t} : call'[u] = call[u]
      BY <2>1, <2>2 DEF LibraryShape, Places, LC!NoCall, LC!NoLib
    <2>5. /\ held' \in [Threads -> SUBSET Libs]
          /\ libraries' \in [Names -> Libs \cup {LC!NoLib}]
          /\ \A u \in Threads : call'[u].at # "None" => call'[u].name \in Names
      BY <2>1, <2>2, <2>4 DEF LibraryShape, LC!NoCall
    <2>6. ~lib[o].valid /\ LC!Has(o)'
      BY <1>g, <2>1, <2>4 DEF LC!Has, LibraryShape
    <2>7. \A n \in Names : libraries'[n] # LC!NoLib => libraries'[n] \in Valid(n)
      BY <2>1 DEF MapIsValid
    <2>8. \A u \in Threads :
            IF call'[u].at \in {"Made", "Inserting"}
            THEN \/ call'[u].obj \in Valid(call'[u].name)
                 \/ call'[u].obj = o /\ made = [name |-> call'[u].name, valid |-> TRUE]
            ELSE call'[u].obj = LC!NoLib
      BY <2>4 DEF MapIsValid, LC!NoCall
    <2> HIDE DEF made
    <2> QED
      BY <1>n, <2>1, <2>3, <2>4, <2>5, <2>6, <2>7, <2>8, SettleIInv
  <1>4. ASSUME NEW t \in Threads, LC!Insert(t)
        PROVE  LibraryInv'
    <2>1. call[t].at = "Made" /\ call[t].name \in Names /\ call[t].obj \in Valid(call[t].name)
      BY <1>4 DEF LC!Insert, LibraryShape, MapIsValid
    <2>2. call[t].obj \in Libs \cup {LC!NoLib} /\ "Inserting" \in Places \ {"None"}
      BY <2>1 DEF Valid, Places
    <2> QED
      BY <1>4, <2>1, <2>2, EnterIInv DEF LC!Insert
  <1>5. ASSUME NEW t \in Threads, LC!Inserted(t)
        PROVE  LibraryInv'
    <2>1. /\ call[t].name \in Names /\ call[t].obj \in Valid(call[t].name)
          /\ libraries' = [libraries EXCEPT ![call[t].name] = call[t].obj]
          /\ held' = [held EXCEPT ![t] = @ \cup {call[t].obj}]
          /\ call' = [call EXCEPT ![t] = LC!NoCall]
          /\ LC!Settle(LC!Gone, LC!NoLib)
      BY <1>5 DEF LC!Inserted, LibraryShape, MapIsValid
    <2>2. /\ libraries' \in [Names -> Libs \cup {LC!NoLib}]
          /\ held' \in [Threads -> SUBSET Libs]
          /\ call' \in [Threads -> [at : Places, name : Names \cup {"none"},
                                    obj : Libs \cup {LC!NoLib}]]
          /\ \A u \in Threads : call'[u].at # "None" => call'[u].name \in Names
      BY <2>1 DEF LibraryShape, Valid, LC!NoCall, Places, LC!NoLib
    <2>3. /\ \A n \in Names : libraries'[n] # LC!NoLib => libraries'[n] \in Valid(n)
          /\ \A u \in Threads : IF call'[u].at \in {"Made", "Inserting"}
                                 THEN call'[u].obj \in Valid(call'[u].name)
                                 ELSE call'[u].obj = LC!NoLib
      BY <2>1 DEF LibraryShape, MapIsValid, LC!NoCall
    <2> QED
      BY <1>g, <1>n, <2>1, <2>2, <2>3, SettleIInv
  <1>6. ASSUME NEW t \in Threads, LC!Erased(t)
        PROVE  LibraryInv'
    <2>1. /\ call[t].name \in Names
          /\ libraries' = [libraries EXCEPT ![call[t].name] = LC!NoLib]
          /\ call' = [call EXCEPT ![t] = LC!NoCall] /\ UNCHANGED held
          /\ LC!Settle(LC!Gone, LC!NoLib)
      BY <1>6 DEF LC!Erased, LibraryShape
    <2>2. /\ libraries' \in [Names -> Libs \cup {LC!NoLib}]
          /\ held' \in [Threads -> SUBSET Libs]
          /\ call' \in [Threads -> [at : Places, name : Names \cup {"none"},
                                    obj : Libs \cup {LC!NoLib}]]
          /\ \A u \in Threads : call'[u].at # "None" => call'[u].name \in Names
      BY <2>1 DEF LibraryShape, LC!NoCall, Places, LC!NoLib
    <2>3. /\ \A n \in Names : libraries'[n] # LC!NoLib => libraries'[n] \in Valid(n)
          /\ \A u \in Threads : IF call'[u].at \in {"Made", "Inserting"}
                                 THEN call'[u].obj \in Valid(call'[u].name)
                                 ELSE call'[u].obj = LC!NoLib
      BY <2>1 DEF LibraryShape, MapIsValid, LC!NoCall
    <2> QED
      BY <1>g, <1>n, <2>1, <2>2, <2>3, SettleIInv
  <1>7. ASSUME NEW t \in Threads, NEW o \in Libs, LC!GetFunction(t, o)
        PROVE  LibraryInv'
    <2> DEFINE f == [name |-> lib[o].name, mapping |-> mapping[lib[o].name]]
    <2>1. /\ o \in held[t] /\ lib[o].valid /\ lib[o].name \in Names
          /\ functions' = functions \cup {f}
          /\ UNCHANGED <<libraries, lib, held, call, opened, mapping>>
      BY <1>7 DEF LC!GetFunction, MapIsValid
    <2>2. LC!Covered(f.name) /\ f \in [name : Names, mapping : Int]
      BY <2>1 DEF LC!Covered, LibraryShape
    <2>3. LibraryShape'
      BY <2>1, <2>2 DEF LibraryShape
    <2>4. MapIsValid' /\ LC!OpenedByObjects'
      BY <2>1 DEF MapIsValid, Valid, LC!OpenedByObjects
    <2>5. FunctionsCovered'
      BY <2>1, <2>2 DEF FunctionsCovered, LC!Covered
    <2> QED
      BY <2>3, <2>4, <2>5
  <1>8. ASSUME NEW t \in Threads, NEW o \in Libs, LC!Release(t, o)
        PROVE  LibraryInv'
    <2>1. /\ held' = [held EXCEPT ![t] = @ \ {o}] /\ UNCHANGED <<libraries, call>>
          /\ LC!Settle(LC!Gone, LC!NoLib)
      BY <1>8 DEF LC!Release
    <2>2. /\ libraries' \in [Names -> Libs \cup {LC!NoLib}]
          /\ held' \in [Threads -> SUBSET Libs]
          /\ call' \in [Threads -> [at : Places, name : Names \cup {"none"},
                                    obj : Libs \cup {LC!NoLib}]]
          /\ \A u \in Threads : call'[u].at # "None" => call'[u].name \in Names
      BY <2>1 DEF LibraryShape
    <2>3. /\ \A n \in Names : libraries'[n] # LC!NoLib => libraries'[n] \in Valid(n)
          /\ \A u \in Threads : IF call'[u].at \in {"Made", "Inserting"}
                                 THEN call'[u].obj \in Valid(call'[u].name)
                                 ELSE call'[u].obj = LC!NoLib
      BY <2>1 DEF MapIsValid
    <2> QED
      BY <1>g, <1>n, <2>1, <2>2, <2>3, SettleIInv
  <1>9. CASE UNCHANGED LC!vars
    BY <1>9 DEF LC!vars, LibraryShape, MapIsValid, Valid, FunctionsCovered, LC!Covered, LC!OpenedByObjects
  <1> QED
    BY <1>1, <1>2, <1>3, <1>10, <1>4, <1>5, <1>6, <1>7, <1>8, <1>9 DEF LC!Next

LEMMA LibraryAlone == PartsSpec => LC!Spec
  <1>1. PartsInit => LC!Init
    BY DEF PartsInit
  <1>2. [PartsNext]_partsVars => [LC!Next]_(LC!vars)
    BY DEF PartsNext, partsVars, libraryVars, LC!vars
  <1> QED
    BY <1>1, <1>2, PTL DEF PartsSpec, LC!Spec

LEMMA LibraryInvariant == LC!Spec => []LibraryInv
  BY LibsAssumption, LibraryInitInv, LibraryStepInv, PTL DEF LC!Spec

\* A function taken from a library stays where it is as long as the library is in
\* the map or somebody holds a lib of it, and the loader has a library open once for
\* each lib of it there is, whatever threads load, unload and drop (library.cpp:6-48).
THEOREM LibrariesAreOpenCorrect == PartsSpec => []LibrariesAreOpen
  <1>1. LibraryInv => LC!LibrariesAreOpen
    BY LibsAssumption, CoveredIsOpen DEF LibraryInv, LibraryShape, FunctionsCovered, LC!FunctionsStay, LC!LibrariesAreOpen
  <1>2. LibraryInv => LibrariesAreOpen
    BY <1>1 DEF LibrariesAreOpen
  <1> QED
    BY <1>2, LibraryAlone, LibraryInvariant, PTL

-------------------------------------------------------------------------------
(* The container with room for N                                           *)

\* The cells and what the calls have made of the content; the latter is longer than
\* the former's size only in a container that an erase has torn.
MassShape ==
  /\ copies \in BOOLEAN /\ exists \in BOOLEAN
  /\ cell \in [1 .. N -> MS!Cells]
  /\ size \in 0 .. N
  /\ content \in Seq(Elements)
  /\ ms_lost \in BOOLEAN /\ ms_twice \in BOOLEAN

MassInv == MassShape /\ MS!ElementsAreAccounted

-------------------------------------------------------------------------------
LEMMA ContentsAreShort ==
  ASSUME MS!CapacityAssumption, NEW s \in MS!Fillings
  PROVE  /\ s \in Seq(Elements) /\ Len(s) \in 0 .. N
         /\ \A i \in 1 .. Len(s) : s[i] \in Elements
  <1>1. PICK n \in 0 .. N : s \in [1 .. n -> Elements]
    BY DEF MS!Fillings
  <1>2. n \in Nat /\ s \in Seq(Elements) /\ Len(s) = n
    BY <1>1 DEF MS!CapacityAssumption
  <1> QED
    BY <1>1, <1>2

\* What the cells hold, by their kinds.
LEMMA KindsOfCells ==
  /\ MS!Raw \in MS!Cells /\ MS!Raw.is = "raw" /\ MS!Moved \in MS!Cells /\ MS!Moved.is = "moved"
  /\ \A v \in Elements : MS!Object(v) \in MS!Cells
  /\ \A v : MS!Object(v).is = "object"
  BY DEF MS!Raw, MS!Moved, MS!Object, MS!Cells

\* n copies over cells c.
LEMMA CopiedCells ==
  ASSUME MS!CapacityAssumption, NEW s \in MS!Fillings, NEW c \in [1 .. N -> MS!Cells],
         NEW n \in 0 .. Len(s)
  PROVE  /\ MS!Copied(c, s, n) \in [1 .. N -> MS!Cells]
         /\ \A i \in 1 .. n : MS!Copied(c, s, n)[i] = MS!Object(s[i])
         /\ \A i \in n + 1 .. N : MS!Copied(c, s, n)[i] = c[i]
  <1>1. /\ Len(s) \in 0 .. N
        /\ \A i \in 1 .. Len(s) : s[i] \in Elements
    BY ContentsAreShort
  <1>2. \A i \in 1 .. N : (IF i <= n THEN MS!Object(s[i]) ELSE c[i]) \in MS!Cells
    BY <1>1, KindsOfCells
  <1> QED
    BY <1>1, <1>2 DEF MS!Copied, MS!CapacityAssumption

LEMMA DestroyedCells ==
  ASSUME MS!CapacityAssumption, NEW c \in [1 .. N -> MS!Cells], NEW n \in 0 .. N
  PROVE  /\ MS!Destroyed(c, n) \in [1 .. N -> MS!Cells]
         /\ \A i \in 1 .. n : MS!Destroyed(c, n)[i] = MS!Raw
         /\ \A i \in n + 1 .. N : MS!Destroyed(c, n)[i] = c[i]
  BY KindsOfCells DEF MS!Destroyed, MS!CapacityAssumption

LEMMA ShiftedCells ==
  ASSUME MS!CapacityAssumption, cell \in [1 .. N -> MS!Cells],
         NEW place \in 1 .. N, NEW n \in Nat, place + n <= N
  PROVE  /\ MS!Shifted(place, n) \in [1 .. N -> MS!Cells]
         /\ \A i \in 1 .. place - 1 : MS!Shifted(place, n)[i] = cell[i]
         /\ \A i \in place .. place + n - 1 : MS!Shifted(place, n)[i] = cell[i + 1]
         /\ ~copies => MS!Shifted(place, n)[place + n] \in {MS!Raw, MS!Moved}
         /\ \A i \in place + n + 1 .. N : MS!Shifted(place, n)[i] = cell[i]
  <1> DEFINE e(i) == CASE i \in place .. place + n - 1 -> cell[i + 1]
                       [] i = place + n -> IF n = 0 THEN MS!Raw
                                           ELSE IF copies THEN cell[i] ELSE MS!Moved
                       [] OTHER -> cell[i]
  <1>1. \A i \in 1 .. place - 1 : e(i) = cell[i]
    BY DEF MS!CapacityAssumption
  <1>2. \A i \in place .. place + n - 1 : e(i) = cell[i + 1] /\ i + 1 \in 1 .. N
    BY DEF MS!CapacityAssumption
  <1>3. /\ e(place + n) \in {MS!Raw, MS!Moved, cell[place + n]}
        /\ ~copies => e(place + n) \in {MS!Raw, MS!Moved}
    BY DEF MS!CapacityAssumption
  <1>4. \A i \in place + n + 1 .. N : e(i) = cell[i]
    BY DEF MS!CapacityAssumption
  <1>5. MS!Shifted(place, n) = [i \in 1 .. N |-> e(i)]
    BY DEF MS!Shifted
  <1> HIDE DEF e
  <1>6. \A i \in 1 .. N : e(i) \in MS!Cells
    <2> SUFFICES ASSUME NEW i \in 1 .. N
                 PROVE  e(i) \in MS!Cells
      OBVIOUS
    <2>1. \/ i \in 1 .. place - 1 \/ i \in place .. place + n - 1
          \/ i = place + n \/ i \in place + n + 1 .. N
      BY DEF MS!CapacityAssumption
    <2> QED
      BY <2>1, <1>1, <1>2, <1>3, <1>4, KindsOfCells
  <1> QED
    BY <1>1, <1>2, <1>3, <1>4, <1>5, <1>6 DEF MS!CapacityAssumption

-------------------------------------------------------------------------------
LEMMA MassInitInv ==
  ASSUME MS!CapacityAssumption, MS!Init
  PROVE  MassInv
  <1>1. cell \in [1 .. N -> MS!Cells] /\ content \in Seq(Elements)
    BY KindsOfCells DEF MS!Init
  <1>2. size \in 0 .. N
    BY DEF MS!Init, MS!CapacityAssumption
  <1>3. MS!Objects(cell) \subseteq 1 .. size
    BY KindsOfCells DEF MS!Init, MS!Objects
  <1> QED
    BY <1>1, <1>2, <1>3 DEF MS!Init, MassInv, MassShape, MS!ElementsAreAccounted, MS!HoldsContent,
       MS!OnlyMovedFromAreLeft, MS!DestroysObjects

LEMMA StepConstruct ==
  ASSUME MS!CapacityAssumption, MassInv, NEW s \in MS!Fillings, MS!Construct(s)
  PROVE  MassInv'
  <1> DEFINE raw == [i \in 1 .. N |-> MS!Raw]
  <1>1. /\ s \in Seq(Elements) /\ Len(s) \in 0 .. N
        /\ raw \in [1 .. N -> MS!Cells]
    BY ContentsAreShort, KindsOfCells
  <1>2. CASE /\ exists' = TRUE
             /\ cell' = MS!Copied(raw, s, Len(s))
             /\ size' = Len(s)
             /\ content' = s
             /\ UNCHANGED <<ms_lost, threw>>
    <2>1. /\ cell' \in [1 .. N -> MS!Cells]
          /\ \A i \in 1 .. Len(s) : cell'[i] = MS!Object(s[i])
          /\ \A i \in Len(s) + 1 .. N : cell'[i] = MS!Raw
      BY <1>1, <1>2, CopiedCells, SMTT(30) DEF MS!CapacityAssumption
    <2>2. MassShape'
      BY <1>1, <1>2, <2>1 DEF MS!Construct, MassInv, MassShape
    <2>3. MS!Objects(cell') \subseteq 1 .. size'
      BY <1>1, <1>2, <2>1, KindsOfCells DEF MS!Objects, MS!CapacityAssumption
    <2> QED
      BY <1>1, <1>2, <2>1, <2>2, <2>3 DEF MS!Construct, MassInv, MS!ElementsAreAccounted, MS!HoldsContent, MS!OnlyMovedFromAreLeft,
     MS!DestroysObjects
  <1>3. CASE \E n \in 0 .. Len(s) - 1 :
               /\ threw' = threw \cup {"copy"}
               /\ ms_lost' = (ms_lost \/ n > 0)
               /\ UNCHANGED <<exists, cell, size, content>>
    BY <1>3 DEF MS!Construct, MassInv, MassShape, MS!ElementsAreAccounted, MS!HoldsContent, MS!OnlyMovedFromAreLeft,
     MS!DestroysObjects
  <1> QED
    BY <1>2, <1>3 DEF MS!Construct

\* The cells of an untorn container hold objects.
LEMMA CellsAreThere ==
  ASSUME MassInv, exists, "erase" \notin threw
  PROVE  \A i \in 1 .. size : cell[i].is = "object"
  BY KindsOfCells DEF MassInv, MS!ElementsAreAccounted, MS!HoldsContent

LEMMA StepAssign ==
  ASSUME MS!CapacityAssumption, MassInv, NEW s \in MS!Fillings, MS!Assign(s)
  PROVE  MassInv'
  <1> DEFINE cleared == MS!Destroyed(cell, size)
  <1>1. /\ s \in Seq(Elements) /\ Len(s) \in 0 .. N
        /\ size \in 0 .. N /\ cell \in [1 .. N -> MS!Cells]
    BY ContentsAreShort DEF MassInv, MassShape
  <1>2. /\ cleared \in [1 .. N -> MS!Cells]
        /\ \A i \in 1 .. size : cleared[i] = MS!Raw
        /\ \A i \in size + 1 .. N : cleared[i] = cell[i]
    BY <1>1, DestroyedCells
  <1> HIDE DEF cleared
  <1>3. (~copies /\ {"copy", "pop"} \cap threw = {}) => \A i \in 1 .. N : cleared[i].is # "object"
    <2>1. ASSUME ~copies, {"copy", "pop"} \cap threw = {}, NEW i \in size + 1 .. N
          PROVE  cell[i].is # "object"
      BY <1>1, <2>1 DEF MassInv, MS!ElementsAreAccounted, MS!OnlyMovedFromAreLeft, MS!Objects,
         MS!CapacityAssumption
    <2> QED
      BY <1>1, <1>2, <2>1, KindsOfCells DEF MS!CapacityAssumption
  <1>4. ms_twice' \in BOOLEAN /\ (ms_twice' => "erase" \in threw)
    BY <1>1, CellsAreThere DEF MS!Assign, MassInv, MS!ElementsAreAccounted, MS!DestroysObjects
  <1>5. CASE /\ cell' = MS!Copied(cleared, s, Len(s))
             /\ size' = Len(s)
             /\ content' = s
             /\ ms_lost' = (ms_lost \/ \E i \in 1 .. Len(s) : cleared[i].is = "object")
             /\ UNCHANGED threw
    <2>1. /\ cell' \in [1 .. N -> MS!Cells]
          /\ \A i \in 1 .. Len(s) : cell'[i] = MS!Object(s[i])
          /\ \A i \in Len(s) + 1 .. N : cell'[i] = cleared[i]
      <3>1. Len(s) \in 0 .. Len(s)
        BY <1>1
      <3> QED
        BY <1>1, <1>2, <1>5, <3>1, CopiedCells
    <2>2. MassShape'
      BY <1>1, <1>4, <1>5, <2>1 DEF MS!Assign, MassInv, MassShape
    <2>3. (~copies /\ {"copy", "pop"} \cap threw = {}) =>
            MS!Objects(cell') \subseteq 1 .. size' /\ ~ms_lost'
      <3> SUFFICES ASSUME ~copies, {"copy", "pop"} \cap threw = {}
                   PROVE  MS!Objects(cell') \subseteq 1 .. size' /\ ~ms_lost'
        OBVIOUS
      <3>0. ~ms_lost /\ \A i \in 1 .. Len(s) : cleared[i].is # "object"
        BY <1>1, <1>3 DEF MassInv, MS!ElementsAreAccounted, MS!OnlyMovedFromAreLeft, MS!CapacityAssumption
      <3>1. ~ms_lost'
        BY <1>5, <3>0
      <3>2. \A i \in Len(s) + 1 .. N : cell'[i].is # "object"
        BY <1>1, <1>3, <2>1 DEF MS!CapacityAssumption
      <3>3. MS!Objects(cell') \subseteq 1 .. size'
        BY <1>1, <1>5, <3>2 DEF MS!Objects, MS!CapacityAssumption
      <3> QED
        BY <3>1, <3>3
    <2> QED
      BY <1>4, <1>5, <2>1, <2>2, <2>3 DEF MS!Assign, MassInv, MS!ElementsAreAccounted, MS!HoldsContent, MS!OnlyMovedFromAreLeft, MS!DestroysObjects
  <1>6. CASE \E n \in 0 .. Len(s) - 1 :
               /\ cell' = MS!Copied(cleared, s, n)
               /\ size' = 0
               /\ content' = <<>>
               /\ ms_lost' = (ms_lost \/ \E i \in 1 .. n : cleared[i].is = "object")
               /\ threw' = threw \cup {"copy"}
    <2>1. cell' \in [1 .. N -> MS!Cells]
      BY <1>1, <1>2, <1>6, CopiedCells
    <2>2. content' \in Seq(Elements) /\ Len(content') = 0
      BY <1>6
    <2>3. MassShape'
      BY <1>1, <1>4, <1>6, <2>1, <2>2 DEF MS!Assign, MassInv, MassShape, MS!CapacityAssumption
    <2> QED
      BY <1>4, <1>6, <2>2, <2>3 DEF MassInv, MS!ElementsAreAccounted, MS!HoldsContent, MS!OnlyMovedFromAreLeft, MS!DestroysObjects
  <1> QED
    BY <1>5, <1>6 DEF MS!Assign, cleared

LEMMA StepPushBack ==
  ASSUME MS!CapacityAssumption, MassInv, NEW v \in Elements, MS!PushBack(v)
  PROVE  MassInv'
  <1>1. size + 1 \in 1 .. N /\ cell \in [1 .. N -> MS!Cells] /\ content \in Seq(Elements)
    BY DEF MassInv, MassShape, MS!PushBack, MS!CapacityAssumption
  <1>2. /\ cell' \in [1 .. N -> MS!Cells]
        /\ cell'[size + 1] = MS!Object(v)
        /\ \A i \in 1 .. N : i # size + 1 => cell'[i] = cell[i]
    BY <1>1, KindsOfCells DEF MS!PushBack
  <1>3. /\ content' \in Seq(Elements) /\ Len(content') = Len(content) + 1
        /\ content'[Len(content) + 1] = v
        /\ \A i \in 1 .. Len(content) : content'[i] = content[i]
    BY <1>1 DEF MS!PushBack
  <1>4. MassShape'
    BY <1>1, <1>2, <1>3 DEF MS!PushBack, MassInv, MassShape
  <1>5. MS!HoldsContent'
    BY <1>1, <1>2, <1>3 DEF MS!PushBack, MassInv, MassShape, MS!ElementsAreAccounted, MS!HoldsContent
  <1>6. MS!OnlyMovedFromAreLeft'
    <2>1. CASE copies \/ {"copy", "pop"} \cap threw # {}
      BY <2>1 DEF MS!PushBack, MS!OnlyMovedFromAreLeft
    <2>2. CASE ~copies /\ {"copy", "pop"} \cap threw = {}
      <3>1. MS!Objects(cell) \subseteq 1 .. size /\ ~ms_lost
        BY <2>2 DEF MassInv, MS!ElementsAreAccounted, MS!OnlyMovedFromAreLeft
      <3>2. cell[size + 1].is # "object"
        BY <1>1, <3>1 DEF MS!Objects, MassInv, MassShape
      <3>3. MS!Objects(cell') \subseteq 1 .. size'
        BY <1>1, <1>2, <3>1 DEF MS!Objects, MS!PushBack, MassInv, MassShape
      <3> QED
        BY <3>1, <3>2, <3>3 DEF MS!PushBack, MS!OnlyMovedFromAreLeft
    <2> QED
      BY <2>1, <2>2
  <1> QED
    BY <1>4, <1>5, <1>6 DEF MS!PushBack, MassInv, MS!ElementsAreAccounted, MS!DestroysObjects

LEMMA StepPopBack ==
  ASSUME MS!CapacityAssumption, MassInv, MS!PopBack
  PROVE  MassInv'
  <1>1. size \in 1 .. N /\ cell \in [1 .. N -> MS!Cells] /\ content \in Seq(Elements)
    BY DEF MassInv, MassShape, MS!PopBack, MS!CapacityAssumption
  <1>2. /\ cell' \in [1 .. N -> MS!Cells]
        /\ \A i \in 1 .. N : i # size => cell'[i] = cell[i]
        /\ "pop" \in threw' \/ cell'[size] = MS!Raw
    BY <1>1, KindsOfCells DEF MS!PopBack
  <1>3. /\ content' \in Seq(Elements)
        /\ Len(content) > 0 => /\ Len(content') = Len(content) - 1
                               /\ \A i \in 1 .. Len(content) - 1 : content'[i] = content[i]
    <2>1. content' = SubSeq(content, 1, Len(content) - 1)
      BY DEF MS!PopBack
    <2>2. Len(content) \in Nat /\ \A i \in 1 .. Len(content) - 1 : content[i] \in Elements
      BY <1>1
    <2>3. /\ content' \in Seq(Elements)
          /\ Len(content') = IF 1 <= Len(content) - 1 THEN Len(content) - 1 - 1 + 1 ELSE 0
          /\ \A i \in 1 .. Len(content) - 1 - 1 + 1 : content'[i] = content[1 + i - 1]
      BY <2>1, <2>2, SubSeqProperties
    <2>4. \A i \in 1 .. Len(content) - 1 : 1 + i - 1 = i /\ i \in 1 .. Len(content) - 1 - 1 + 1
      BY <2>2
    <2>5. Len(content) > 0 => Len(content') = Len(content) - 1
      <3>1. Len(content) \in Nat
        BY <2>2
      <3>2. Len(content') = IF 1 <= Len(content) - 1 THEN Len(content) - 1 - 1 + 1 ELSE 0
        BY <2>3
      <3>3. CASE Len(content) = 1
        BY <3>2, <3>3
      <3>4. CASE Len(content) > 1
        BY <3>1, <3>2, <3>4
      <3>5. \A k \in Nat : ~(k > 0) \/ k = 1 \/ k > 1
        OBVIOUS
      <3> QED
        BY <3>1, <3>3, <3>4, <3>5
    <2>6. ASSUME NEW i \in 1 .. Len(content) - 1
          PROVE  content'[i] = content[i]
      <3>1. content'[i] = content[1 + i - 1]
        BY <2>3, <2>4
      <3> QED
        BY <2>4, <3>1
    <2> QED
      BY <2>3, <2>5, <2>6
  <1>4. MassShape'
    <2>1. size' \in 0 .. N
      BY <1>1 DEF MS!PopBack, MS!CapacityAssumption
    <2> QED
      BY <1>2, <1>3, <2>1 DEF MS!PopBack, MassInv, MassShape
  <1>5. threw \subseteq threw' /\ ("erase" \in threw' => "erase" \in threw)
        /\ ms_lost' = ms_lost
    BY DEF MS!PopBack
  <1>6. MS!HoldsContent'
    <2> SUFFICES ASSUME exists', "erase" \notin threw'
                 PROVE  /\ size' = Len(content')
                        /\ \A i \in 1 .. size' : cell'[i] = MS!Object(content'[i])
      BY DEF MS!HoldsContent
    <2>0. exists /\ "erase" \notin threw /\ size' = size - 1
      BY <1>5 DEF MS!PopBack
    <2>1. /\ size = Len(content)
          /\ \A i \in 1 .. size : cell[i] = MS!Object(content[i])
      BY <2>0 DEF MassInv, MS!ElementsAreAccounted, MS!HoldsContent
    <2>2. \A i \in 1 .. size - 1 : /\ i \in 1 .. N /\ i # size /\ i \in 1 .. size
      BY <1>1 DEF MS!CapacityAssumption
    <2> QED
      BY <1>1, <1>2, <1>3, <2>0, <2>1, <2>2
  <1>7. MS!OnlyMovedFromAreLeft'
    <2>1. CASE copies \/ {"copy", "pop"} \cap threw' # {}
      BY <2>1 DEF MS!PopBack, MS!OnlyMovedFromAreLeft
    <2>2. CASE ~copies /\ {"copy", "pop"} \cap threw' = {}
      <3>1. MS!Objects(cell) \subseteq 1 .. size /\ ~ms_lost
        BY <1>5, <2>2 DEF MassInv, MS!ElementsAreAccounted, MS!OnlyMovedFromAreLeft
      <3>2. MS!Objects(cell') \subseteq 1 .. size'
        BY <1>1, <1>2, <2>2, <3>1, KindsOfCells DEF MS!Objects, MS!PopBack
      <3> QED
        BY <1>5, <3>1, <3>2 DEF MS!OnlyMovedFromAreLeft
    <2> QED
      BY <2>1, <2>2
  <1>8. MS!DestroysObjects'
    <2>1. ASSUME "erase" \notin threw
          PROVE  ~ms_twice /\ cell[size].is # "raw"
      BY <1>1, <2>1, CellsAreThere
      DEF MS!PopBack, MassInv, MS!ElementsAreAccounted, MS!DestroysObjects, MS!CapacityAssumption
    <2>2. ms_twice' => "erase" \in threw
      BY <2>1 DEF MS!PopBack
    <2> QED
      BY <2>2 DEF MS!PopBack, MS!DestroysObjects
  <1> QED
    BY <1>4, <1>6, <1>7, <1>8 DEF MassInv, MS!ElementsAreAccounted

LEMMA StepErase ==
  ASSUME MS!CapacityAssumption, MassInv, NEW place \in 1 .. N, MS!Erase(place)
  PROVE  MassInv'
  <1>1. /\ size \in place .. N /\ size - place \in Nat
        /\ cell \in [1 .. N -> MS!Cells] /\ content \in Seq(Elements)
    BY DEF MassInv, MassShape, MS!Erase, MS!CapacityAssumption
  <1> DEFINE c(i) == IF i < place THEN content[i] ELSE content[i + 1]
  <1>2. /\ content' \in Seq(Elements)
        /\ Len(content) > 0 => Len(content') = Len(content) - 1
        /\ \A i \in 1 .. Len(content) - 1 : content'[i] = c(i)
    <2>1. \A i \in 1 .. Len(content) - 1 : c(i) \in Elements
      BY <1>1
    <2>2. content' = [i \in 1 .. Len(content) - 1 |-> c(i)]
      BY DEF MS!Erase
    <2> HIDE DEF c
    <2>3. CASE Len(content) > 0
      BY <1>1, <2>1, <2>2, <2>3
    <2>4. CASE Len(content) = 0
      <3>1. content' = <<>>
        BY <2>2, <2>4
      <3> QED
        BY <2>4, <3>1
    <2> QED
      BY <1>1, <2>3, <2>4
  <1>3. ms_twice' \in BOOLEAN /\ (ms_twice' => "erase" \in threw)
    <2>1. ASSUME "erase" \notin threw
          PROVE  ~ms_twice /\ \A i \in place .. size : cell[i].is # "raw"
      BY <1>1, <2>1, CellsAreThere
      DEF MS!Erase, MassInv, MS!ElementsAreAccounted, MS!DestroysObjects, MS!CapacityAssumption
    <2> QED
      BY <2>1 DEF MS!Erase
  <1>4. \A last : (ms_lost \/ MS!Buried(place, last)) \in BOOLEAN
    BY DEF MS!Buried
  <1>5. CASE /\ cell' = MS!Shifted(place, size - place)
             /\ size' = size - 1
             /\ ms_lost' = (ms_lost \/ MS!Buried(place, size - 1))
             /\ UNCHANGED threw
    <2>1. /\ cell' \in [1 .. N -> MS!Cells]
          /\ \A i \in 1 .. place - 1 : cell'[i] = cell[i]
          /\ \A i \in place .. size - 1 : cell'[i] = cell[i + 1]
          /\ ~copies => cell'[size] \in {MS!Raw, MS!Moved}
          /\ \A i \in size + 1 .. N : cell'[i] = cell[i]
      <3>1. place + (size - place) = size
        BY <1>1
      <3> QED
        BY <1>1, <1>5, <3>1, ShiftedCells DEF MS!CapacityAssumption
    <2>2. MassShape'
      <3>1. size' \in 0 .. N
        BY <1>1, <1>5 DEF MS!CapacityAssumption
      <3> QED
        BY <1>2, <1>3, <1>4, <1>5, <2>1, <3>1 DEF MS!Erase, MassInv, MassShape
    <2>3. MS!HoldsContent'
      <3> SUFFICES ASSUME exists', "erase" \notin threw'
                   PROVE  /\ size' = Len(content')
                          /\ \A i \in 1 .. size' : cell'[i] = MS!Object(content'[i])
        BY DEF MS!HoldsContent
      <3>1. /\ size = Len(content)
            /\ \A i \in 1 .. size : cell[i] = MS!Object(content[i])
        BY <1>5 DEF MS!Erase, MassInv, MS!ElementsAreAccounted, MS!HoldsContent
      <3>2. size' = Len(content')
        BY <1>1, <1>2, <1>5, <3>1
      <3>3. ASSUME NEW i \in 1 .. size'
            PROVE  cell'[i] = MS!Object(content'[i])
        <4>1. i \in 1 .. Len(content) - 1 /\ i \in 1 .. size - 1
          BY <1>1, <1>5, <3>1, <3>3
        <4>2. CASE i < place
          BY <1>1, <1>2, <2>1, <3>1, <4>1, <4>2
        <4>3. CASE ~(i < place)
          BY <1>1, <1>2, <2>1, <3>1, <4>1, <4>3
        <4> QED
          BY <4>2, <4>3
      <3> QED
        BY <3>2, <3>3
    <2>4. MS!OnlyMovedFromAreLeft'
      <3>1. ASSUME ~copies, {"copy", "pop"} \cap threw = {}
            PROVE  MS!Objects(cell') \subseteq 1 .. size' /\ ~ms_lost'
        <4>1. MS!Objects(cell) \subseteq 1 .. size /\ ~ms_lost
          BY <3>1 DEF MassInv, MS!ElementsAreAccounted, MS!OnlyMovedFromAreLeft
        <4>2. ASSUME NEW i \in 1 .. N, i \notin 1 .. size - 1
              PROVE  cell'[i].is # "object"
          <5>1. i = size \/ i \in size + 1 .. N
            BY <1>1, <4>2
          <5> QED
            BY <1>1, <2>1, <3>1, <4>1, <5>1, KindsOfCells DEF MS!Objects
        <4>3. ~ms_lost'
          BY <1>5, <3>1, <4>1 DEF MS!Buried
        <4> QED
          BY <1>1, <1>5, <4>2, <4>3 DEF MS!Objects
      <3> QED
        BY <1>5, <3>1 DEF MS!Erase, MS!OnlyMovedFromAreLeft
    <2> QED
      BY <1>3, <1>5, <2>2, <2>3, <2>4 DEF MassInv, MS!ElementsAreAccounted, MS!DestroysObjects
  <1>6. ASSUME NEW n \in 0 .. size - place - 1,
               cell' = [MS!Shifted(place, n) EXCEPT ![place + n] = MS!Raw],
               ms_lost' = (ms_lost \/ MS!Buried(place, place + n)),
               threw' = threw \cup {"erase"},
               UNCHANGED size
        PROVE  MassInv'
    <2>1. n \in Nat /\ place + n < size /\ place + n \in 1 .. N
      BY <1>1, <1>6 DEF MS!CapacityAssumption
    <2>2. /\ MS!Shifted(place, n) \in [1 .. N -> MS!Cells]
          /\ \A i \in place + n + 1 .. N : MS!Shifted(place, n)[i] = cell[i]
      BY <1>1, <2>1, ShiftedCells
    <2>3. /\ cell' \in [1 .. N -> MS!Cells]
          /\ \A i \in place + n + 1 .. N : cell'[i] = cell[i]
      BY <1>6, <2>1, <2>2, KindsOfCells
    <2>4. MassShape'
      BY <1>1, <1>2, <1>3, <1>4, <1>6, <2>3 DEF MS!Erase, MassInv, MassShape
    <2>5. MS!OnlyMovedFromAreLeft'
      <3>1. ASSUME ~copies, {"copy", "pop"} \cap threw = {}
            PROVE  MS!Objects(cell') \subseteq 1 .. size' /\ ~ms_lost'
        <4>1. MS!Objects(cell) \subseteq 1 .. size /\ ~ms_lost
          BY <3>1 DEF MassInv, MS!ElementsAreAccounted, MS!OnlyMovedFromAreLeft
        <4>2. ASSUME NEW i \in 1 .. N, i \notin 1 .. size
              PROVE  cell'[i].is # "object"
          BY <1>1, <2>1, <2>3, <4>1, <4>2 DEF MS!Objects
        <4>3. ~ms_lost'
          BY <1>6, <3>1, <4>1 DEF MS!Buried
        <4> QED
          BY <1>6, <4>2, <4>3 DEF MS!Objects
      <3> QED
        BY <1>6, <3>1 DEF MS!Erase, MS!OnlyMovedFromAreLeft
    <2> QED
      BY <1>6, <2>4, <2>5 DEF MassInv, MS!ElementsAreAccounted, MS!HoldsContent, MS!DestroysObjects
  <1> QED
    BY <1>5, <1>6 DEF MS!Erase

LEMMA StepClear ==
  ASSUME MS!CapacityAssumption, MassInv, NEW ends \in BOOLEAN, MS!Clear(ends)
  PROVE  MassInv'
  <1>1. size \in 0 .. N /\ cell \in [1 .. N -> MS!Cells]
    BY DEF MassInv, MassShape
  <1>2. /\ cell' \in [1 .. N -> MS!Cells]
        /\ \A i \in 1 .. size : cell'[i] = MS!Raw
        /\ \A i \in size + 1 .. N : cell'[i] = cell[i]
    <2>1. cell' = MS!Destroyed(cell, size)
      BY DEF MS!Clear
    <2> DEFINE d == MS!Destroyed(cell, size)
    <2>2. /\ d \in [1 .. N -> MS!Cells]
          /\ \A i \in 1 .. size : d[i] = MS!Raw
          /\ \A i \in size + 1 .. N : d[i] = cell[i]
      BY <1>1, DestroyedCells
    <2> HIDE DEF d
    <2>3. cell' = d
      BY <2>1 DEF d
    <2> QED
      BY <2>2, <2>3
  <1>3. content' \in Seq(Elements) /\ Len(content') = 0
    BY DEF MS!Clear
  <1>4. MassShape'
    BY <1>1, <1>2, <1>3 DEF MS!Clear, MassInv, MassShape, MS!CapacityAssumption
  <1>5. MS!HoldsContent'
    BY <1>3 DEF MS!Clear, MS!HoldsContent
  <1>6. MS!OnlyMovedFromAreLeft'
    <2>1. ASSUME ~copies, {"copy", "pop"} \cap threw = {}
          PROVE  MS!Objects(cell') \subseteq 1 .. size' /\ ~ms_lost'
      <3>1. MS!Objects(cell) \subseteq 1 .. size /\ ~ms_lost
        BY <2>1 DEF MassInv, MS!ElementsAreAccounted, MS!OnlyMovedFromAreLeft
      <3>2. \A i \in size + 1 .. N : cell[i].is # "object"
        BY <1>1, <3>1 DEF MS!Objects, MS!CapacityAssumption
      <3>3. \A i \in 1 .. N : cell'[i].is # "object"
        BY <1>1, <1>2, <3>2, KindsOfCells DEF MS!CapacityAssumption
      <3> QED
        BY <3>1, <3>2, <3>3 DEF MS!Clear, MS!Objects
    <2> QED
      BY <2>1 DEF MS!Clear, MS!OnlyMovedFromAreLeft
  <1>7. MS!DestroysObjects'
    BY <1>1, CellsAreThere DEF MS!Clear, MassInv, MS!ElementsAreAccounted, MS!DestroysObjects
  <1> QED
    BY <1>4, <1>5, <1>6, <1>7 DEF MassInv, MS!ElementsAreAccounted

LEMMA MassStepInv ==
  ASSUME MS!CapacityAssumption, MassInv, [MS!Next]_(MS!vars)
  PROVE  MassInv'
  <1>1. CASE UNCHANGED MS!vars
    BY <1>1 DEF MS!vars, MassInv, MassShape, MS!ElementsAreAccounted, MS!HoldsContent, MS!OnlyMovedFromAreLeft,
       MS!DestroysObjects
  <1> QED
    BY <1>1, StepConstruct, StepAssign, StepPushBack, StepPopBack, StepErase, StepClear
    DEF MS!Next

LEMMA MassAlone == PartsSpec => MS!Spec
  <1>1. PartsInit => MS!Init
    BY DEF PartsInit
  <1>2. [PartsNext]_partsVars => [MS!Next]_(MS!vars)
    BY DEF PartsNext, partsVars, massVars, MS!vars
  <1> QED
    BY <1>1, <1>2, PTL DEF PartsSpec, MS!Spec

LEMMA MassInvariant == MS!Spec => []MassInv
  BY MassAssumption, MassInitInv, MassStepInv, PTL DEF MS!Spec

\* A container of any capacity holds what was put into it, and each element ends once
\* but for those that an erase() has moved from, or copied (mass.hpp:19-141).
THEOREM ElementsAreAccountedCorrect == PartsSpec => []ElementsAreAccounted
  <1>1. MassInv => ElementsAreAccounted
    BY DEF MassInv, ElementsAreAccounted
  <1> QED
    BY <1>1, MassAlone, MassInvariant, PTL

-------------------------------------------------------------------------------
(* The map that is looked up both ways                                     *)

\* The pair that counts: the first with that key, or that value.
LEMMA FirstPair ==
  ASSUME NEW pairs, Len(pairs) \in Nat, DOMAIN pairs = 1 .. Len(pairs), NEW i, NEW n \in DOMAIN pairs
  PROVE  /\ BM!First(pairs, i, pairs[n][i]) \in DOMAIN pairs
         /\ pairs[BM!First(pairs, i, pairs[n][i])][i] = pairs[n][i]
  <1> DEFINE x == pairs[n][i]
             S == {m \in DOMAIN pairs : pairs[m][i] = x}
  <1>1. S \in SUBSET Nat /\ n \in S
    OBVIOUS
  <1> HIDE DEF x
  <1>2. PICK m \in S : \A k \in S : m <= k
    BY <1>1, LeastNumber
  <1>3. \A k \in 1 .. m - 1 : pairs[k][i] # x
    <2> SUFFICES ASSUME NEW k \in 1 .. m - 1
                 PROVE  pairs[k][i] # x
      OBVIOUS
    <2>1. k \in DOMAIN pairs /\ ~(m <= k)
      OBVIOUS
    <2> QED
      BY <1>2, <2>1
  <1>4. m \in DOMAIN pairs /\ pairs[m][i] = x
    OBVIOUS
  <1>5. BM!First(pairs, i, x) \in DOMAIN pairs /\ pairs[BM!First(pairs, i, x)][i] = x
    BY <1>3, <1>4 DEF BM!First
  <1> QED
    BY <1>5 DEF x

\* One side of a map made of a list leads back through the other.
LEMMA SidesAreInverse ==
  ASSUME NEW pairs, Len(pairs) \in Nat, DOMAIN pairs = 1 .. Len(pairs), NEW i, NEW j, BM!OneToOne(pairs, i)
  PROVE  BM!GoesBack(BM!Side(pairs, j, i), BM!Side(pairs, i, j))
  <1> DEFINE f == BM!Side(pairs, j, i)
             g == BM!Side(pairs, i, j)
  <1> SUFFICES ASSUME NEW x \in DOMAIN f
               PROVE  f[x] \in DOMAIN g /\ g[f[x]] = x
    BY DEF BM!GoesBack
  <1>1. PICK n \in DOMAIN pairs : x = pairs[n][j]
    BY DEF BM!Side
  <1> DEFINE m == BM!First(pairs, j, x)
  <1>2. m \in DOMAIN pairs /\ pairs[m][j] = x
    BY <1>1, FirstPair
  <1>3. f[x] = pairs[m][i]
    BY DEF BM!Side
  <1>4. f[x] \in DOMAIN g
    BY <1>2, <1>3 DEF BM!Side
  <1> DEFINE k == BM!First(pairs, i, f[x])
  <1> HIDE DEF m
  <1>5. k \in DOMAIN pairs /\ pairs[k][i] = pairs[m][i]
    BY <1>2, <1>3, FirstPair
  <1>6. g[f[x]] = pairs[k][j]
    BY <1>4 DEF BM!Side
  <1> HIDE DEF k
  <1>7. pairs[k] = pairs[m]
    BY <1>2, <1>5 DEF BM!OneToOne
  <1> QED
    BY <1>2, <1>4, <1>6, <1>7

LEMMA InitMaps ==
  ASSUME BM!ListsAssumption, BM!Init
  PROVE  BM!MapsAreInverse
  <1>1. Len(list) \in Nat /\ DOMAIN list = 1 .. Len(list)
    BY DEF BM!Init, BM!ListsAssumption
  <1>2. BM!OneToOne(list, 1) => BM!GoesBack(reverse, forward)
    BY <1>1, SidesAreInverse DEF BM!Init
  <1>3. BM!OneToOne(list, 2) => BM!GoesBack(forward, reverse)
    BY <1>1, SidesAreInverse DEF BM!Init
  <1> QED
    BY <1>2, <1>3 DEF BM!MapsAreInverse

LEMMA StepMaps ==
  ASSUME BM!MapsAreInverse, [BM!Next]_(BM!vars)
  PROVE  BM!MapsAreInverse'
  <1>1. ASSUME list = <<>>, ~split
        PROVE  BM!GoesBack(reverse, forward) /\ BM!GoesBack(forward, reverse)
    BY <1>1 DEF BM!MapsAreInverse, BM!OneToOne
  <1>2. ASSUME NEW k \in Keys, NEW v \in Values, BM!Insert(k, v)
        PROVE  BM!MapsAreInverse'
    <2> SUFFICES ASSUME ~split'
                 PROVE  BM!GoesBack(reverse', forward') /\ BM!GoesBack(forward', reverse')
      BY DEF BM!MapsAreInverse
    <2>1. BM!GoesBack(reverse, forward) /\ BM!GoesBack(forward, reverse)
      BY <1>1, <1>2 DEF BM!Insert
    <2> QED
      BY <1>2, <2>1 DEF BM!Insert, BM!Emplace, BM!GoesBack
  <1>3. ASSUME NEW k \in Keys, NEW v \in Values, BM!Exsert(k, v)
        PROVE  BM!MapsAreInverse'
    <2> SUFFICES ASSUME ~split'
                 PROVE  BM!GoesBack(reverse', forward') /\ BM!GoesBack(forward', reverse')
      BY DEF BM!MapsAreInverse
    <2>1. ~split /\ forward[k] = v
      BY <1>3 DEF BM!Exsert
    <2>2. BM!GoesBack(reverse, forward) /\ BM!GoesBack(forward, reverse)
      BY <1>1, <1>3, <2>1 DEF BM!Exsert
    <2> QED
      BY <1>3, <2>1, <2>2 DEF BM!Exsert, BM!Erase, BM!Restrict, BM!GoesBack
  <1>4. CASE UNCHANGED BM!vars
    BY <1>4 DEF BM!vars, BM!MapsAreInverse
  <1> QED
    BY <1>2, <1>3, <1>4 DEF BM!Next

LEMMA MapAlone == PartsSpec => BM!Spec
  <1>1. PartsInit => BM!Init
    BY DEF PartsInit
  <1>2. [PartsNext]_partsVars => [BM!Next]_(BM!vars)
    BY DEF PartsNext, partsVars, bimapVars, BM!vars
  <1> QED
    BY <1>1, <1>2, PTL DEF PartsSpec, BM!Spec

\* A map made of any list, or filled by insert() and exsert(), leads from a value to
\* its key and back again, as long as no exsert() was given a key and a value of two
\* pairs (map.ipp:1-61).
THEOREM MapsAreInverseCorrect == PartsSpec => []MapsAreInverse
  <1>1. BM!Spec => []BM!MapsAreInverse
    BY MapsAssumption, InitMaps, StepMaps, PTL DEF BM!Spec
  <1>2. BM!MapsAreInverse => MapsAreInverse
    BY DEF MapsAreInverse
  <1> QED
    BY <1>1, <1>2, MapAlone, PTL

-------------------------------------------------------------------------------
(* Files                                                                   *)

\* What FlattenSeq builds up to its i-th sequence.
Grows(f, n, seqs) ==
  f = [i \in 1 .. n |-> IF i = 1 THEN seqs[i] ELSE f[i - 1] \o seqs[i]]

\* There is such a function for every length, by the least length that has none.
LEMMA GrowsExists ==
  ASSUME NEW seqs, NEW n \in Nat
  PROVE  \E f : Grows(f, n, seqs)
  <1> DEFINE S == {m \in Nat : ~ \E f : Grows(f, m, seqs)}
  <1> SUFFICES ASSUME S # {} PROVE FALSE
    OBVIOUS
  <1>1. PICK m \in S : \A k \in S : m <= k
    BY LeastNumber
  <1>2. Grows([i \in 1 .. 0 |-> 0], 0, seqs)
    BY DEF Grows
  <1>3. m \in Nat \ {0} /\ m - 1 \in Nat /\ ~(m <= m - 1)
    BY <1>2
  <1>4. PICK f : Grows(f, m - 1, seqs)
    BY <1>1, <1>3
  <1> DEFINE x == IF m = 1 THEN seqs[m] ELSE f[m - 1] \o seqs[m]
             g == [i \in 1 .. m |-> IF i = m THEN x ELSE f[i]]
  <1>5. ASSUME NEW i \in 1 .. m
        PROVE  g[i] = IF i = 1 THEN seqs[i] ELSE g[i - 1] \o seqs[i]
    <2>1. CASE i = m
      <3>1. i # 1 => i - 1 \in 1 .. m /\ i - 1 # m
        BY <2>1, <1>3
      <3> QED
        BY <2>1, <3>1
    <2>2. CASE i # m
      <3>1. i \in 1 .. m - 1 /\ g[i] = f[i]
        BY <2>2, <1>3
      <3>2. f[i] = IF i = 1 THEN seqs[i] ELSE f[i - 1] \o seqs[i]
        BY <3>1, <1>4 DEF Grows
      <3>3. i # 1 => i - 1 \in 1 .. m /\ i - 1 # m
        BY <3>1, <1>3
      <3>4. i # 1 => g[i - 1] = f[i - 1]
        BY <3>3
      <3> HIDE DEF g
      <3> QED
        BY <3>1, <3>2, <3>4
    <2> QED
      BY <2>1, <2>2
  <1>6. g = [i \in 1 .. m |-> g[i]]
    OBVIOUS
  <1> HIDE DEF g
  <1>7. Grows(g, m, seqs)
    BY <1>5, <1>6 DEF Grows
  <1> QED
    BY <1>1, <1>7

\* Sequences put one behind the other are a sequence.
LEMMA FlattenIsSeq ==
  ASSUME NEW T, NEW seqs \in Seq(Seq(T)), seqs # <<>>
  PROVE  FS!FlattenSeq(seqs) \in Seq(T)
  <1> DEFINE n == Len(seqs)
             f == CHOOSE g : Grows(g, n, seqs)
  <1>1. n \in Nat \ {0} /\ \A i \in 1 .. n : seqs[i] \in Seq(T)
    BY EmptySeq, LenProperties, ElementOfSeq
  <1>2. FS!FlattenSeq(seqs) = f[n]
    BY <1>1 DEF FS!FlattenSeq, Grows
  <1> HIDE DEF n
  <1>3. Grows(f, n, seqs)
    BY <1>1, GrowsExists
  <1> HIDE DEF f
  <1> DEFINE S == {m \in Nat : m \in 1 .. n /\ f[m] \notin Seq(T)}
  <1>4. S = {}
    <2> SUFFICES ASSUME S # {} PROVE FALSE
      OBVIOUS
    <2>1. PICK m \in S : \A k \in S : m <= k
      BY LeastNumber
    <2>2. f[m] = IF m = 1 THEN seqs[m] ELSE f[m - 1] \o seqs[m]
      BY <1>3 DEF Grows
    <2>3. m # 1 => m - 1 \in Nat /\ m - 1 \in 1 .. n /\ ~(m <= m - 1)
      BY <1>1
    <2>4. m # 1 => f[m - 1] \in Seq(T)
      BY <2>1, <2>3
    <2>5. seqs[m] \in Seq(T)
      BY <1>1
    <2>6. m # 1 => f[m - 1] \o seqs[m] \in Seq(T)
      BY <2>4, <2>5, ConcatProperties
    <2> QED
      BY <2>2, <2>5, <2>6
  <1> QED
    BY <1>1, <1>2, <1>4, SMTT(30)

\* All that a file holds, with the characters that the code puts there by name.
Chars == STRING \cup {"absent", "r", "n", "0"}
Texts == Seq(Chars)

LEMMA TextIsSeq ==
  ASSUME NEW c \in Texts, windows \in BOOLEAN
  PROVE  FS!Text(c) \in Texts
  <1>1. CASE windows
    <2> DEFINE s == [i \in DOMAIN c |-> IF c[i] = "n" THEN <<"r", "n">> ELSE <<c[i]>>]
    <2>1. Len(c) \in Nat /\ DOMAIN c = 1 .. Len(c) /\ \A i \in DOMAIN c : c[i] \in Chars
      BY LenProperties, ElementOfSeq DEF Texts
    <2>2. \A i \in DOMAIN c : s[i] \in Texts
      <3>1. <<"r", "n">> \in Texts
        BY DEF Texts, Chars
      <3>2. \A i \in DOMAIN c : <<c[i]>> \in Texts
        BY <2>1 DEF Texts
      <3> QED
        BY <3>1, <3>2
    <2>3. s \in Seq(Texts)
      <3>1. s \in [1 .. Len(c) -> Texts]
        BY <2>1, <2>2
      <3> QED
        BY <2>1, <3>1, SeqDef
    <2>4. FS!Text(c) = FS!FlattenSeq(s)
      BY <1>1 DEF FS!Text
    <2> HIDE DEF s
    <2>5. s # <<>> => FS!FlattenSeq(s) \in Texts
      BY <2>3, FlattenIsSeq DEF Texts
    <2>6. s = <<>> => FS!FlattenSeq(s) = <<>>
      BY DEF FS!FlattenSeq
    <2>7. <<>> \in Texts
      BY DEF Texts
    <2> QED
      BY <2>4, <2>5, <2>6, <2>7
  <1>2. CASE ~windows
    BY <1>2 DEF FS!Text
  <1> QED
    BY <1>1, <1>2

Jobs ==
  [op : {"write", "rename"}, at : {"Read", "Delete", "Open", "Put", "returned", "threw", "ended"},
   src : Paths, dst : Paths, content : Texts, overwrite : BOOLEAN, was : Texts,
   hurt : SUBSET {"read", "open", "full", "crash"}]

FileShape ==
  /\ windows \in BOOLEAN
  /\ file \in [Paths -> Texts]
  /\ fs_job = FS!NoJob \/ fs_job \in Jobs
  /\ FS!Renames => fs_job.overwrite

FileInv == FileShape /\ FS!ContentSurvives

LEMMA FileInitInv ==
  ASSUME FS!Init
  PROVE  FileInv
  <1>1. FS!Absent \in Texts
    BY DEF FS!Absent, Texts, Chars
  <1> QED
    BY <1>1 DEF FS!Init, FileInv, FileShape, FS!ContentSurvives, FS!Renames, FS!NoJob

LEMMA FileStepInv ==
  ASSUME FS!ContentsAssumption, FileInv, [FS!Next]_(FS!vars)
  PROVE  FileInv'
  <1> USE DEF FileInv
  <1>0. FS!Absent \in Texts /\ <<>> \in Texts /\ Contents \subseteq Texts
    <2>1. FS!Absent \in Texts /\ <<>> \in Texts
      BY DEF FS!Absent, Texts, Chars
    <2>2. STRING \subseteq Chars
      BY DEF Chars
    <2>3. Seq(STRING) \subseteq Texts
      BY <2>2, SeqMonotonic DEF Texts
    <2> QED
      BY <2>1, <2>3 DEF FS!ContentsAssumption
  <1>a. fs_job.at \in {"Read", "Delete", "Open", "Put"} => fs_job \in Jobs
    BY DEF FileShape, FS!NoJob
  <1>1. ASSUME NEW p \in Paths, NEW c \in Contents, NEW overwrite \in BOOLEAN,
               FS!WriteFile(p, c, overwrite)
        PROVE  FileInv'
    <2>1. fs_job' \in Jobs /\ ~FS!Renames'
      BY <1>0, <1>1 DEF FS!WriteFile, FS!Start, FileShape, Jobs, FS!Renames
    <2>2. FileShape'
      BY <1>1, <2>1 DEF FS!WriteFile, FS!Start, FileShape
    <2> QED
      BY <2>1, <2>2 DEF FS!ContentSurvives
  <1>2. ASSUME NEW p \in Paths, FS!DeleteFile(p)
        PROVE  FileInv'
    BY <1>0, <1>2 DEF FS!DeleteFile, FileShape, FS!NoJob, FS!ContentSurvives, FS!Renames
  <1>3. ASSUME NEW src \in Paths, NEW dst \in Paths, FS!RenameFile(src, dst)
        PROVE  FileInv'
    <2>1. fs_job' \in Jobs /\ fs_job'.at = "Read" /\ fs_job'.overwrite /\ file'[fs_job'.src] = fs_job'.was
      BY <1>0, <1>3 DEF FS!RenameFile, FS!Start, FileShape, Jobs
    <2>2. FileShape'
      BY <1>3, <2>1 DEF FS!RenameFile, FS!Start, FileShape
    <2> QED
      BY <2>1, <2>2 DEF FS!ContentSurvives
  <1>4. CASE FS!Read
    <2>1. fs_job \in Jobs /\ file[fs_job.src] \in Texts
      BY <1>a, <1>4 DEF FS!Read, FileShape, Jobs
    <2>2. CASE FS!Go("threw")
      <3>1. FileShape'
        BY <1>4, <2>1, <2>2 DEF FS!Read, FS!Go, FileShape, Jobs, FS!Renames
      <3>2. FS!Renames' /\ fs_job'.hurt = {} => file'[fs_job'.src] = fs_job'.was
        BY <1>4, <2>1, <2>2 DEF FS!Read, FS!Go, Jobs, FS!Renames, FS!ContentSurvives
      <3>3. fs_job'.at = "threw"
        BY <2>1, <2>2 DEF FS!Go, Jobs
      <3> QED
        BY <3>1, <3>2, <3>3 DEF FS!ContentSurvives
    <2>3. CASE fs_job' = [fs_job EXCEPT !.at = "Delete", !.content = file[fs_job.src]]
      <3>1. FileShape'
        BY <1>4, <2>1, <2>3 DEF FS!Read, FileShape, Jobs, FS!Renames
      <3>2. FS!Renames' /\ fs_job'.hurt = {} => file'[fs_job'.src] = fs_job'.was /\ fs_job'.content = fs_job'.was
        BY <1>4, <2>1, <2>3 DEF FS!Read, Jobs, FS!Renames, FS!ContentSurvives
      <3>3. fs_job'.at = "Delete"
        BY <2>1, <2>3 DEF Jobs
      <3> QED
        BY <3>1, <3>2, <3>3 DEF FS!ContentSurvives
    <2>4. CASE fs_job' = [fs_job EXCEPT !.at = "Delete", !.content = FS!Zeros(file[fs_job.src]), !.hurt = {"read"}]
      <3>1. FS!Zeros(file[fs_job.src]) \in Texts
        <4> DEFINE c == file[fs_job.src]
        <4>1. Len(c) \in Nat /\ DOMAIN c = 1 .. Len(c)
          BY <2>1, LenProperties DEF Texts
        <4>2. FS!Zeros(c) \in [1 .. Len(c) -> Chars]
          BY <4>1 DEF FS!Zeros, Chars
        <4> QED
          BY <4>1, <4>2, SeqDef DEF Texts
      <3>2. FileShape'
        BY <1>4, <2>1, <2>4, <3>1 DEF FS!Read, FileShape, Jobs, FS!Renames
      <3>3. fs_job'.hurt # {}
        BY <2>1, <2>4 DEF Jobs
      <3> QED
        BY <3>2, <3>3 DEF FS!ContentSurvives
    <2> QED
      BY <1>4, <2>2, <2>3, <2>4 DEF FS!Read
  <1>5. CASE FS!Delete
    <2>1. fs_job \in Jobs
      BY <1>a, <1>5 DEF FS!Delete
    <2>2. FileShape'
      BY <1>0, <1>5, <2>1 DEF FS!Delete, FS!Go, FileShape, Jobs, FS!Renames
    <2>3. CASE FS!Go("Open")
      BY <1>5, <2>1, <2>2, <2>3 DEF FS!Delete, FS!Go, Jobs, FS!Renames, FS!ContentSurvives
    <2>4. CASE FS!Go("threw") /\ UNCHANGED file
      BY <1>5, <2>1, <2>2, <2>4 DEF FS!Delete, FS!Go, Jobs, FS!Renames, FS!ContentSurvives
    <2> QED
      BY <1>5, <2>3, <2>4 DEF FS!Delete
  <1>6. CASE FS!Open
    <2>1. fs_job \in Jobs /\ fs_job.dst \in Paths
      BY <1>a, <1>6 DEF FS!Open, Jobs
    <2>2. CASE FS!Go("Put") /\ file' = [file EXCEPT ![fs_job.dst] =
                      IF fs_job.overwrite \/ @ = FS!Absent THEN <<>> ELSE @]
      <3>1. FileShape'
        BY <1>0, <1>6, <2>1, <2>2 DEF FS!Open, FS!Go, FileShape, Jobs, FS!Renames
      <3>2. FS!Renames' => file'[fs_job'.dst] = <<>>
        BY <2>1, <2>2 DEF FS!Go, FileShape, Jobs, FS!Renames
      <3>3. FS!Renames' /\ fs_job'.hurt = {} => fs_job'.content = fs_job'.was
        BY <1>6, <2>1, <2>2 DEF FS!Open, FS!Go, Jobs, FS!Renames, FS!ContentSurvives
      <3>4. fs_job'.at = "Put"
        BY <2>1, <2>2 DEF FS!Go, Jobs
      <3> QED
        BY <3>1, <3>2, <3>3, <3>4 DEF FS!ContentSurvives
    <2>3. CASE UNCHANGED file /\ FS!Fail("threw", "open")
      <3>1. FileShape'
        BY <1>6, <2>1, <2>3 DEF FS!Open, FS!Fail, FileShape, Jobs, FS!Renames
      <3>2. ~(FS!Renames' /\ fs_job'.hurt = {})
        BY <1>6, <2>1, <2>3 DEF FS!Open, FS!Fail, Jobs, FS!Renames
      <3> QED
        BY <3>1, <3>2 DEF FS!ContentSurvives
    <2> QED
      BY <1>6, <2>2, <2>3 DEF FS!Open
  <1>7. CASE FS!Put
    <2> DEFINE t == FS!Text(fs_job.content)
    <2>1. fs_job \in Jobs /\ fs_job.dst \in Paths /\ fs_job.content \in Texts
      BY <1>a, <1>7 DEF FS!Put, Jobs
    <2>2. t \in Texts /\ Len(t) \in Nat
      BY <2>1, TextIsSeq, LenProperties DEF FileShape, Texts
    <2>3. PICK n \in 0 .. Len(t) :
            /\ file' = [file EXCEPT ![fs_job.dst] = @ \o SubSeq(t, 1, n)]
            /\ IF n = Len(t) THEN FS!Go("returned") ELSE FS!Fail("returned", "full")
      BY <1>7 DEF FS!Put
    <2> DEFINE new == file[fs_job.dst] \o SubSeq(t, 1, n)
    <2>4. t \in Seq(Chars) /\ SubSeq(t, 1, Len(t)) = t
      BY <2>2, SubSeqFull DEF Texts
    <2>5. SubSeq(t, 1, n) \in Texts
      BY <2>2, SubSeqProperties DEF Texts
    <2>6. new \in Texts
      BY <2>1, <2>5, ConcatProperties DEF FileShape, Texts
    <2>7. windows' = windows
      BY <1>7 DEF FS!Put
    <2> HIDE DEF new
    <2>8. file' = [file EXCEPT ![fs_job.dst] = new]
      BY <2>3 DEF new
    <2>9. fs_job' \in Jobs /\ fs_job'.overwrite = fs_job.overwrite /\ fs_job'.op = fs_job.op /\ fs_job'.at = "returned"
      <3>1. CASE FS!Go("returned")
        BY <2>1, <3>1 DEF FS!Go, Jobs
      <3>2. CASE FS!Fail("returned", "full")
        <4>1. fs_job.hurt \cup {"full"} \in SUBSET {"read", "open", "full", "crash"}
          BY <2>1 DEF Jobs
        <4> QED
          BY <2>1, <3>2, <4>1 DEF FS!Fail, Jobs
      <3> QED
        BY <2>3, <3>1, <3>2
    <2>10. FileShape'
      BY <2>1, <2>6, <2>7, <2>8, <2>9 DEF FileShape, FS!Renames
    <2>11. FS!Renames' /\ fs_job'.hurt = {} => file'[fs_job'.dst] = FS!Text(fs_job.was)
      <3> SUFFICES ASSUME FS!Renames', fs_job'.hurt = {}
                   PROVE  file'[fs_job'.dst] = FS!Text(fs_job.was)
        OBVIOUS
      <3>1. FS!Renames /\ fs_job.hurt = {} /\ n = Len(t) /\ fs_job'.dst = fs_job.dst
        <4>1. fs_job.at = "Put" /\ FS!Renames
          BY <1>7, <2>9 DEF FS!Put, FS!Renames
        <4>2. CASE n = Len(t) /\ FS!Go("returned")
          BY <2>1, <4>1, <4>2 DEF FS!Go, Jobs
        <4>3. CASE FS!Fail("returned", "full")
          <5>1. fs_job'.hurt = fs_job.hurt \cup {"full"}
            BY <2>1, <4>1, <4>3 DEF FS!Fail, Jobs
          <5> QED
            BY <5>1
        <4> QED
          BY <2>3, <4>2, <4>3
      <3>2. fs_job.content = fs_job.was /\ file[fs_job.dst] = <<>>
        BY <1>7, <3>1 DEF FS!Put, FS!ContentSurvives
      <3>3. new = <<>> \o SubSeq(t, 1, n)
        BY <3>2 DEF new
      <3>4. SubSeq(t, 1, n) = t
        BY <2>4, <3>1
      <3>5. <<>> \o t = t
        BY <2>4, ConcatEmptySeq
      <3> QED
        BY <2>1, <2>8, <3>1, <3>2, <3>3, <3>4, <3>5 DEF FileShape
    <2>12. fs_job'.was = fs_job.was
      BY <2>1, <2>3 DEF FS!Go, FS!Fail, Jobs
    <2>13. (FS!Text(fs_job.was))' = FS!Text(fs_job.was)
      BY <2>7, <2>12 DEF FS!Text
    <2> QED
      BY <2>9, <2>10, <2>11, <2>13 DEF FS!ContentSurvives
  <1>8. CASE FS!Crash
    <2>1. fs_job \in Jobs
      BY <1>a, <1>8 DEF FS!Crash, FS!Busy
    <2>2. FileShape'
      BY <1>8, <2>1 DEF FS!Crash, FS!Fail, FileShape, Jobs, FS!Renames
    <2>3. FS!Renames' /\ fs_job'.hurt = {} => file'[fs_job'.src] = fs_job'.was
      BY <1>8, <2>1 DEF FS!Crash, FS!Fail, FS!Busy, Jobs, FS!Renames, FS!ContentSurvives
    <2>4. fs_job'.at = "ended"
      BY <1>8, <2>1 DEF FS!Crash, FS!Fail, Jobs
    <2> QED
      BY <2>2, <2>3, <2>4 DEF FS!ContentSurvives
  <1>9. CASE UNCHANGED FS!vars
    BY <1>9 DEF FS!vars, FileShape, FS!ContentSurvives, FS!Text, FS!Renames
  <1> QED
    BY <1>1, <1>2, <1>3, <1>4, <1>5, <1>6, <1>7, <1>8, <1>9 DEF FS!Next

LEMMA FileAlone == PartsSpec => FS!Spec
  <1>1. PartsInit => FS!Init
    BY DEF PartsInit
  <1>2. [PartsNext]_partsVars => [FS!Next]_(FS!vars)
    BY DEF PartsNext, partsVars, fileVars, FS!vars
  <1> QED
    BY <1>1, <1>2, PTL DEF PartsSpec, FS!Spec

LEMMA FileInvariant == FS!Spec => []FileInv
  BY FilesAssumption, FileInitInv, FileStepInv, PTL DEF FS!Spec

\* What a file holds is not lost by renaming it, whatever the content and wherever the
\* disk fails or the process ends, unless it was then in memory alone or could not be
\* read (file.cpp:90-153).
THEOREM ContentSurvivesCorrect == PartsSpec => []ContentSurvives
  <1>1. FileInv => ContentSurvives
    BY DEF FileInv, ContentSurvives
  <1> QED
    BY <1>1, FileAlone, FileInvariant, PTL

-------------------------------------------------------------------------------
(* Datagrams                                                             *)

\* What the bytes of a number count for: each Base times the one behind it.
LEMMA PowerIs ==
  ASSUME NW!WireAssumption
  PROVE  /\ NW!Power[0] = 1
         /\ \A i \in 1 .. Width : NW!Power[i] = Base * NW!Power[i - 1]
         /\ \A i \in 0 .. Width : NW!Power[i] \in Nat \ {0}
  <1> DEFINE step == [p \in Nat \X (1 .. Width) |-> Base * p[1]]
             P(f) == f = [n \in 0 .. Width |-> IF n = 0 THEN 1 ELSE Base * f[n - 1]]
  <1>0. Width \in Nat /\ Base \in Nat \ {0}
    BY DEF NW!WireAssumption
  <1>1. step \in [Nat \X (1 .. Width) -> Nat]
    BY <1>0
  <1>2. PICK f \in [0 .. Width -> Nat] : Iterates(f, Width, 1, step)
    BY <1>0, <1>1, Iteration
  <1>3. \A i \in 1 .. Width : f[i - 1] \in Nat
    BY <1>0
  <1>4. \A i \in 1 .. Width : step[<<f[i - 1], i>>] = Base * f[i - 1]
    BY <1>3
  <1> HIDE DEF step
  <1>5. P(f)
    <2>1. f = [i \in 0 .. Width |-> IF i = 0 THEN 1 ELSE step[<<f[i - 1], i>>]]
      BY <1>2 DEF Iterates
    <2>2. \A i \in 0 .. Width : i # 0 => i \in 1 .. Width
      BY <1>0
    <2>3. \A i \in 0 .. Width : i # 0 => step[<<f[i - 1], i>>] = Base * f[i - 1]
      BY <1>4, <2>2
    <2> QED
      BY <2>1, <2>3, Zenon
  <1>6. P(NW!Power)
    BY <1>5 DEF NW!Power
  <1> DEFINE q == NW!Power
  <1> HIDE DEF q
  <1>7. q = [n \in 0 .. Width |-> IF n = 0 THEN 1 ELSE Base * q[n - 1]]
    BY <1>6 DEF q
  <1>8. q[0] = 1 /\ \A i \in 1 .. Width : q[i] = Base * q[i - 1]
    BY <1>0, <1>7
  <1> DEFINE S == {i \in 0 .. Width : q[i] \in Nat \ {0}}
  <1>9. 0 \in S
    BY <1>0, <1>8
  <1>10. ASSUME NEW i \in 1 .. Width, i - 1 \in S
         PROVE  i \in S
    BY <1>0, <1>8, <1>10
  <1> HIDE DEF S
  <1>11. \A i \in 0 .. Width : i \in S
    BY <1>0, <1>9, <1>10, CountingUp
  <1> QED
    BY <1>8, <1>11 DEF S, q

\* What is left of a number when its last i bytes have been cut off.
LEMMA DigitsOf ==
  ASSUME NW!WireAssumption, NEW v \in NW!Ulong
  PROVE  \E rest \in [0 .. Width -> Nat] :
           /\ rest[0] = v /\ rest[Width] = 0
           /\ \A i \in 1 .. Width : rest[i] = rest[i - 1] \div Base
           /\ \A i \in 0 .. Width : rest[i] < NW!Power[Width]
           /\ NW!BigEndian(v) = [i \in 1 .. Width |-> rest[Width - i] % Base]
  <1> DEFINE step == [p \in Nat \X (1 .. Width) |-> p[1] \div Base]
             P(f) == f = [i \in 0 .. Width |-> IF i = 0 THEN v ELSE f[i - 1] \div Base]
             q == NW!Power
  <1>0. Width \in Nat \ {0} /\ Base \in Nat \ {0, 1} /\ v \in Nat
    BY PowerIs DEF NW!WireAssumption, NW!Ulong
  <1>1. step \in [Nat \X (1 .. Width) -> Nat]
    BY <1>0
  <1>2. PICK f \in [0 .. Width -> Nat] : Iterates(f, Width, v, step)
    BY <1>0, <1>1, Iteration
  <1>3. \A i \in 1 .. Width : f[i - 1] \in Nat
    BY <1>0
  <1>4. \A i \in 1 .. Width : step[<<f[i - 1], i>>] = f[i - 1] \div Base
    BY <1>3
  <1> HIDE DEF step
  <1>5. P(f)
    <2>1. f = [i \in 0 .. Width |-> IF i = 0 THEN v ELSE step[<<f[i - 1], i>>]]
      BY <1>2 DEF Iterates
    <2>2. \A i \in 0 .. Width : i # 0 => i \in 1 .. Width
      BY <1>0
    <2>3. \A i \in 0 .. Width : i # 0 => step[<<f[i - 1], i>>] = f[i - 1] \div Base
      BY <1>4, <2>2
    <2> QED
      BY <2>1, <2>3, Zenon
  <1> DEFINE rest == CHOOSE g : P(g)
  <1>6. P(rest)
    BY <1>5
  <1>7. NW!BigEndian(v) = [i \in 1 .. Width |-> rest[Width - i] % Base]
    BY DEF NW!BigEndian
  <1> HIDE DEF rest
  <1>8. rest[0] = v /\ \A i \in 1 .. Width : rest[i] = rest[i - 1] \div Base
    BY <1>0, <1>6
  <1> HIDE DEF P, q
  <1>9. /\ q[0] = 1
        /\ \A i \in 1 .. Width : q[i] = Base * q[i - 1]
        /\ \A i \in 0 .. Width : q[i] \in Nat \ {0}
    BY PowerIs DEF q
  <1>10. v < q[Width]
    BY <1>0, <1>9 DEF NW!Ulong, q
  <1> DEFINE S == {i \in 0 .. Width : rest[i] \in Nat /\ rest[i] <= v /\ rest[i] < q[Width - i]}
  <1>11. 0 \in S
    BY <1>0, <1>8, <1>10
  <1>12. ASSUME NEW i \in 1 .. Width, i - 1 \in S
         PROVE  i \in S
    <2> DEFINE a == rest[i - 1]
               b == q[Width - i]
    <2>1. /\ Width - (i - 1) = Width - i + 1 /\ Width - i + 1 \in 1 .. Width
          /\ Width - i \in 0 .. Width
      BY <1>0
    <2>2. q[Width - i + 1] = Base * b /\ b \in Nat \ {0}
      <3>1. Width - i + 1 - 1 = Width - i
        BY <1>0
      <3> QED
        BY <1>9, <2>1, <3>1
    <2>3. a \in Nat /\ a <= v /\ a < Base * b
      BY <1>12, <2>1, <2>2
    <2>4. rest[i] = a \div Base
      BY <1>8
    <2> HIDE DEF a, b
    <2>5. a \div Base \in Nat /\ a \div Base <= v /\ a \div Base < b
      BY <1>0, <2>2, <2>3, SMTT(30)
    <2> QED
      BY <2>4, <2>5 DEF b
  <1> HIDE DEF S
  <1>13. \A i \in 0 .. Width : i \in S
    BY <1>0, <1>11, <1>12, CountingUp
  <1>14. \A i \in 0 .. Width : rest[i] \in Nat /\ rest[i] <= v /\ rest[i] < q[Width - i]
    BY <1>13 DEF S
  <1>15. rest[Width] = 0
    <2>1. Width \in 0 .. Width /\ Width - Width = 0
      BY <1>0
    <2>2. rest[Width] \in Nat /\ rest[Width] < 1
      BY <1>9, <1>14, <2>1
    <2> QED
      BY <2>2
  <1>16. DOMAIN rest = 0 .. Width
    BY <1>6 DEF P
  <1>17. rest \in [0 .. Width -> Nat]
    <2>1. rest = [i \in 0 .. Width |-> rest[i]]
      BY <1>6 DEF P
    <2> QED
      BY <1>14, <2>1
  <1>18. ASSUME NEW i \in 0 .. Width
         PROVE  rest[i] < q[Width]
    <2>1. Width \in 0 .. Width
      BY <1>0
    <2>2. q[Width] \in Nat
      BY <1>9, <2>1
    <2>3. v \in Nat
      BY DEF NW!Ulong
    <2>4. rest[i] \in Nat /\ rest[i] <= v
      BY <1>14
    <2> QED
      BY <1>10, <2>2, <2>3, <2>4
  <1> QED
    BY <1>7, <1>8, <1>15, <1>17, <1>18 DEF q

\* The number that the first i bytes make.
LEMMA ValueOf ==
  ASSUME NW!WireAssumption, NEW bytes \in [1 .. Width -> NW!Byte]
  PROVE  \E value \in [0 .. Width -> Nat] :
           /\ value[0] = 0
           /\ \A i \in 1 .. Width :
                value[i] = (value[i - 1] * Base + bytes[i]) % NW!Power[Width]
           /\ NW!Native(bytes) = value[Width]
  <1> DEFINE top == NW!Power[Width]
             step == [p \in Nat \X (1 .. Width) |-> (p[1] * Base + bytes[p[2]]) % top]
             P(f) == f = [i \in 0 .. Width |->
                            IF i = 0 THEN 0 ELSE (f[i - 1] * Base + bytes[i]) % top]
  <1>0. Width \in Nat \ {0} /\ Base \in Nat \ {0, 1} /\ top \in Nat \ {0}
        /\ \A i \in 1 .. Width : bytes[i] \in Nat
    BY PowerIs DEF NW!WireAssumption, NW!Byte
  <1> DEFINE value == CHOOSE g : P(g)
  <1>7. NW!Native(bytes) = value[Width]
    BY DEF NW!Native
  <1> HIDE DEF top
  <1>n. ASSUME NEW x \in Nat, NEW i \in 1 .. Width
        PROVE  (x * Base + bytes[i]) % top \in Nat
    BY <1>0
  <1>1. step \in [Nat \X (1 .. Width) -> Nat]
    BY <1>n
  <1>2. PICK f \in [0 .. Width -> Nat] : Iterates(f, Width, 0, step)
    BY <1>0, <1>1, Iteration
  <1>3. \A i \in 1 .. Width : f[i - 1] \in Nat
    BY <1>0
  <1>4. \A i \in 1 .. Width : step[<<f[i - 1], i>>] = (f[i - 1] * Base + bytes[i]) % top
    BY <1>3
  <1> HIDE DEF step
  <1>5. P(f)
    <2>1. f = [i \in 0 .. Width |-> IF i = 0 THEN 0 ELSE step[<<f[i - 1], i>>]]
      BY <1>2 DEF Iterates
    <2>2. \A i \in 0 .. Width : i # 0 => i \in 1 .. Width
      BY <1>0
    <2>3. \A i \in 0 .. Width : i # 0 => step[<<f[i - 1], i>>] = (f[i - 1] * Base + bytes[i]) % top
      BY <1>4, <2>2
    <2> QED
      BY <2>1, <2>3, Zenon
  <1>6. P(value)
    BY <1>5
  <1> HIDE DEF value
  <1>8. value[0] = 0 /\ \A i \in 1 .. Width : value[i] = (value[i - 1] * Base + bytes[i]) % top
    BY <1>0, <1>6, SMTT(30)
  <1> DEFINE S == {i \in 0 .. Width : value[i] \in Nat}
  <1>11. 0 \in S
    BY <1>0, <1>8
  <1>12. ASSUME NEW i \in 1 .. Width, i - 1 \in S
         PROVE  i \in S
    <2>1. value[i - 1] \in Nat
      BY <1>12
    <2> QED
      BY <1>8, <1>n, <2>1
  <1> HIDE DEF S
  <1>13. \A i \in 0 .. Width : i \in S
    BY <1>0, <1>11, <1>12, CountingUp
  <1>17. value \in [0 .. Width -> Nat]
    <2>1. value = [i \in 0 .. Width |-> value[i]]
      BY <1>6
    <2> QED
      BY <1>13, <2>1 DEF S
  <1> QED
    BY <1>7, <1>8, <1>17 DEF top

\* A number is read as it was written.
LEMMA NumberReadBack ==
  ASSUME NW!WireAssumption, NEW v \in NW!Ulong
  PROVE  /\ NW!BigEndian(v) \in [1 .. Width -> NW!Byte]
         /\ NW!Native(NW!BigEndian(v)) = v
  <1> DEFINE q == NW!Power
             b == NW!BigEndian(v)
  <1>0. Width \in Nat \ {0} /\ Base \in Nat \ {0, 1} /\ q[Width] \in Nat
    BY PowerIs DEF NW!WireAssumption
  <1>1. PICK rest \in [0 .. Width -> Nat] :
           /\ rest[0] = v /\ rest[Width] = 0
           /\ \A i \in 1 .. Width : rest[i] = rest[i - 1] \div Base
           /\ \A i \in 0 .. Width : rest[i] < q[Width]
           /\ b = [i \in 1 .. Width |-> rest[Width - i] % Base]
    BY DigitsOf
  <1>2. \A i \in 1 .. Width : rest[Width - i] \in Nat
    BY <1>0
  <1>3. b \in [1 .. Width -> NW!Byte]
    BY <1>0, <1>1, <1>2 DEF NW!Byte
  <1> HIDE DEF b
  <1>4. PICK value \in [0 .. Width -> Nat] :
           /\ value[0] = 0
           /\ \A i \in 1 .. Width : value[i] = (value[i - 1] * Base + b[i]) % q[Width]
           /\ NW!Native(b) = value[Width]
    BY <1>3, ValueOf
  <1> HIDE DEF q
  <1> DEFINE S == {i \in 0 .. Width : value[i] = rest[Width - i]}
  <1>5. 0 \in S
    BY <1>0, <1>1, <1>4
  <1>6. ASSUME NEW i \in 1 .. Width, i - 1 \in S
        PROVE  i \in S
    <2> DEFINE a == rest[Width - i]
    <2>1. /\ Width - i \in 0 .. Width /\ Width - i + 1 \in 1 .. Width
          /\ Width - (i - 1) = Width - i + 1 /\ Width - i + 1 - 1 = Width - i
      BY <1>0
    <2>2. value[i - 1] = a \div Base
      BY <1>1, <1>6, <2>1
    <2>3. b[i] = a % Base
      BY <1>1
    <2>4. value[i] = ((a \div Base) * Base + (a % Base)) % q[Width]
      BY <1>4, <2>2, <2>3
    <2>5. a \in Nat /\ a < q[Width]
      BY <1>1, <2>1
    <2> HIDE DEF a
    <2>6. (a \div Base) * Base + (a % Base) = a
      BY <1>0, <2>5
    <2>r. \A x, y \in Nat : x < y => x % y = x
      OBVIOUS
    <2>7. a % q[Width] = a
      BY <1>0, <2>5, <2>r
    <2>8. value[i] = a
      BY <2>4, <2>6, <2>7
    <2> QED
      BY <2>8 DEF a
  <1> HIDE DEF S
  <1>7. \A i \in 0 .. Width : i \in S
    BY <1>0, <1>5, <1>6, CountingUp
  <1>8. value[Width] = rest[Width - Width]
    BY <1>0, <1>7 DEF S
  <1> QED
    BY <1>0, <1>1, <1>3, <1>4, <1>8 DEF b

-------------------------------------------------------------------------------
(* What is written *)

\* What the messages are assumed to be.
IsMessage(m) ==
  /\ m \in [id : NW!Ulong, app_id : NW!Ulong, payload : Seq(Seq(NW!Byte))]
  /\ \A i \in 1 .. Len(m.payload) : Len(m.payload[i]) \in NW!Ulong

\* What has been written before the bodies, after the first, the second, ...
IsLayout(g, m) ==
  LET n == Len(m.payload) IN
  /\ g \in [0 .. n -> Seq(NW!Byte)]
  /\ g[0] = NW!BigEndian(m.id) \o NW!BigEndian(m.app_id)
  /\ \A i \in 1 .. n : g[i] = g[i - 1] \o NW!WriteBody(m.payload[i])
  /\ g[n] = NW!Serialize(m)

\* A number is written in Width bytes.
LEMMA NumberIsSeq ==
  ASSUME NW!WireAssumption, NEW v \in NW!Ulong
  PROVE  NW!BigEndian(v) \in Seq(NW!Byte) /\ Len(NW!BigEndian(v)) = Width
  <1> DEFINE b == NW!BigEndian(v)
  <1>1. b \in [1 .. Width -> NW!Byte] /\ Width \in Nat
    BY NumberReadBack DEF NW!WireAssumption
  <1> HIDE DEF b
  <1>2. b \in Seq(NW!Byte) /\ Len(b) = Width
    BY <1>1
  <1> QED
    BY <1>2 DEF b

\* A body is written behind its size.
LEMMA BodyIsSeq ==
  ASSUME NW!WireAssumption, NEW body \in Seq(NW!Byte), Len(body) \in NW!Ulong
  PROVE  /\ NW!WriteBody(body) \in Seq(NW!Byte)
         /\ Len(NW!WriteBody(body)) = Width + Len(body)
         /\ \A j \in 1 .. Width : NW!WriteBody(body)[j] = NW!BigEndian(Len(body))[j]
         /\ \A j \in 1 .. Len(body) : NW!WriteBody(body)[Width + j] = body[j]
  <1> DEFINE b == NW!BigEndian(Len(body))
             w == b \o body
  <1>1. b \in Seq(NW!Byte) /\ Len(b) = Width /\ Width \in Nat
    BY NumberIsSeq DEF NW!WireAssumption
  <1>2. w = NW!WriteBody(body)
    BY DEF NW!WriteBody
  <1> HIDE DEF b
  <1>3. /\ w \in Seq(NW!Byte)
        /\ Len(w) = Len(b) + Len(body)
        /\ \A i \in 1 .. Len(b) + Len(body) :
             w[i] = IF i <= Len(b) THEN b[i] ELSE body[i - Len(b)]
    BY <1>1, ConcatProperties
  <1> HIDE DEF w
  <1>4. Len(body) \in Nat
    BY LenProperties
  <1>5. \A j \in 1 .. Width : w[j] = b[j]
    BY <1>1, <1>3, <1>4
  <1>6. \A j \in 1 .. Len(body) :
          Width + j \in 1 .. Width + Len(body) /\ ~(Width + j <= Width) /\ Width + j - Width = j
    BY <1>1, <1>4
  <1>7. \A j \in 1 .. Len(body) : w[Width + j] = body[j]
    BY <1>1, <1>3, <1>6
  <1> QED
    BY <1>1, <1>2, <1>3, <1>5, <1>7 DEF b

\* There is a layout for every message, and it ends with all that is written.
LEMMA LayoutExists ==
  ASSUME NW!WireAssumption, NEW m, IsMessage(m)
  PROVE  \E g : IsLayout(g, m)
  <1> DEFINE p == m.payload
             n == Len(p)
             T == NW!Byte
             head == NW!BigEndian(m.id) \o NW!BigEndian(m.app_id)
             bodies == [i \in DOMAIN m.payload |-> NW!WriteBody(m.payload[i])]
             f == CHOOSE h : Grows(h, n, bodies)
             flat == NW!FlattenSeq(bodies)
  <1>1. /\ p \in Seq(Seq(T)) /\ n \in Nat /\ DOMAIN p = 1 .. n
        /\ \A i \in 1 .. n : p[i] \in Seq(T) /\ Len(p[i]) \in NW!Ulong
    BY LenProperties, ElementOfSeq DEF IsMessage
  <1>2. head \in Seq(T)
    BY NumberIsSeq, ConcatProperties DEF IsMessage
  <1>3. \A i \in 1 .. n : bodies[i] = NW!WriteBody(p[i]) /\ bodies[i] \in Seq(T)
    BY <1>1, BodyIsSeq
  <1>4. bodies \in [1 .. n -> Seq(T)] /\ bodies \in Seq(Seq(T)) /\ Len(bodies) = n
    <2> HIDE DEF n
    <2>1. bodies = [i \in 1 .. n |-> NW!WriteBody(p[i])]
      BY <1>1
    <2>2. bodies \in [1 .. n -> Seq(T)]
      BY <1>3, <2>1
    <2> HIDE DEF bodies
    <2> QED
      BY <1>1, <2>2
  <1>5. NW!Serialize(m) = head \o flat
    <2>1. NW!Serialize(m) = NW!BigEndian(m.id) \o NW!BigEndian(m.app_id) \o flat
      BY DEF NW!Serialize
    <2> QED
      BY <2>1
  <1>6. n = 0 => flat = <<>>
    BY <1>4 DEF NW!FlattenSeq
  <1>7. n # 0 => flat = f[n]
    BY <1>4 DEF NW!FlattenSeq, Grows
  <1> HIDE DEF n, bodies, flat, head
  <1>8. Grows(f, n, bodies)
    BY <1>1, GrowsExists
  <1> HIDE DEF f
  <1>9. \A i \in 1 .. n : f[i] = IF i = 1 THEN bodies[i] ELSE f[i - 1] \o bodies[i]
    BY <1>8 DEF Grows
  <1>10. \A i \in 1 .. n : f[i] \in Seq(T)
    <2> DEFINE S == {i \in 0 .. n : i # 0 => f[i] \in Seq(T)}
    <2>1. 0 \in S
      BY <1>1
    <2>2. ASSUME NEW i \in 1 .. n, i - 1 \in S
          PROVE  i \in S
      <3>1. i # 1 => f[i - 1] \in Seq(T)
        BY <2>2
      <3>2. i # 1 => f[i - 1] \o bodies[i] \in Seq(T)
        BY <1>3, <3>1, ConcatProperties
      <3>3. f[i] \in Seq(T)
        BY <1>3, <1>9, <3>2
      <3> QED
        BY <1>1, <3>3
    <2> HIDE DEF S
    <2>3. \A i \in 0 .. n : i \in S
      BY <1>1, <2>1, <2>2, CountingUp
    <2> QED
      BY <1>1, <2>3 DEF S
  <1> DEFINE g == [i \in 0 .. n |-> IF i = 0 THEN head ELSE head \o f[i]]
  <1>11. g \in [0 .. n -> Seq(T)]
    <2>1. \A i \in 0 .. n : i # 0 => head \o f[i] \in Seq(T)
      BY <1>1, <1>2, <1>10, ConcatProperties
    <2> QED
      BY <1>2, <2>1
  <1>12. g[0] = head
    BY <1>1
  <1>13. ASSUME NEW i \in 1 .. n
         PROVE  g[i] = g[i - 1] \o bodies[i]
    <2>1. g[i] = head \o f[i]
      BY <1>1
    <2>2. CASE i = 1
      <3>1. g[i - 1] = head /\ f[i] = bodies[i]
        BY <1>1, <1>9, <2>2
      <3> QED
        BY <2>1, <3>1
    <2>3. CASE i # 1
      <3>1. i - 1 \in 1 .. n /\ i - 1 \in 0 .. n /\ i - 1 # 0
        BY <1>1, <2>3
      <3>2. f[i] = f[i - 1] \o bodies[i] /\ g[i - 1] = head \o f[i - 1]
        BY <1>9, <2>3, <3>1
      <3>3. head \o (f[i - 1] \o bodies[i]) = (head \o f[i - 1]) \o bodies[i]
        <4> DEFINE a == f[i - 1]
                   b == bodies[i]
        <4>1. a \in Seq(T) /\ b \in Seq(T)
          BY <1>3, <1>10, <3>1
        <4> HIDE DEF a, b
        <4>2. head \o (a \o b) = (head \o a) \o b
          BY <1>2, <4>1, ConcatAssociative
        <4> QED
          BY <4>2 DEF a, b
      <3> QED
        BY <2>1, <3>2, <3>3
    <2> QED
      BY <2>2, <2>3
  <1>14. g[n] = head \o flat
    <2>1. n = 0 => g[n] = head /\ head \o <<>> = head
      BY <1>1, <1>2, ConcatEmptySeq
    <2>2. n # 0 => g[n] = head \o f[n]
      BY <1>1
    <2> HIDE DEF g
    <2> QED
      BY <1>6, <1>7, <2>1, <2>2
  <1> HIDE DEF g
  <1>15. \A i \in 1 .. n : g[i] = g[i - 1] \o NW!WriteBody(p[i])
    BY <1>3, <1>13
  <1>16. IsLayout(g, m)
    BY <1>5, <1>11, <1>12, <1>14, <1>15 DEF IsLayout, head, n
  <1> QED
    BY <1>16

\* What has been written first stays in its place.
LEMMA LayoutStays ==
  ASSUME NW!WireAssumption, NEW m, IsMessage(m), NEW g, IsLayout(g, m),
         NEW i \in 0 .. Len(m.payload)
  PROVE  /\ NW!Serialize(m) \in Seq(NW!Byte)
         /\ Len(g[i]) \in Nat
         /\ Len(g[i]) <= Len(NW!Serialize(m))
         /\ \A k \in 1 .. Len(g[i]) : NW!Serialize(m)[k] = g[i][k]
  <1> DEFINE p == m.payload
             n == Len(p)
             T == NW!Byte
             s == NW!Serialize(m)
  <1>1. /\ n \in Nat /\ \A j \in 0 .. n : g[j] \in Seq(T)
        /\ \A j \in 1 .. n : g[j] = g[j - 1] \o NW!WriteBody(p[j])
        /\ \A j \in 1 .. n : NW!WriteBody(p[j]) \in Seq(T)
        /\ s = g[n]
    <2>1. p \in Seq(Seq(T)) /\ \A j \in 1 .. n : Len(p[j]) \in NW!Ulong
      BY DEF IsMessage
    <2>2. n \in Nat /\ \A j \in 1 .. n : p[j] \in Seq(T)
      BY <2>1, LenProperties, ElementOfSeq
    <2> QED
      BY <2>1, <2>2, BodyIsSeq DEF IsLayout
  <1> HIDE DEF p, n, s
  <1> DEFINE Stays(a) == Len(a) \in Nat /\ Len(a) <= Len(s) /\ \A k \in 1 .. Len(a) : s[k] = a[k]
             S == {d \in 0 .. n : Stays(g[n - d])}
  <1>2. s \in Seq(T)
    BY <1>1
  <1>3. 0 \in S
    <2>1. n - 0 = n /\ Stays(s)
      BY <1>1, <1>2, LenProperties
    <2> HIDE DEF Stays
    <2> QED
      BY <1>1, <2>1
  <1>4. ASSUME NEW d \in 1 .. n, d - 1 \in S
        PROVE  d \in S
    <2>1. PICK e \in 1 .. n : e = n - (d - 1) /\ e - 1 = n - d /\ e \in 0 .. n /\ e - 1 \in 0 .. n
      <3>1. /\ n - (d - 1) \in 1 .. n /\ n - (d - 1) - 1 = n - d
            /\ n - (d - 1) \in 0 .. n /\ n - d \in 0 .. n
        BY <1>1
      <3> QED
        BY <3>1
    <2> DEFINE a == g[e - 1]
               b == g[e]
               w == NW!WriteBody(p[e])
    <2>2. Stays(b)
      <3> HIDE DEF Stays
      <3>1. Stays(g[n - (d - 1)])
        BY <1>4
      <3> QED
        BY <2>1, <3>1
    <2>3. b = a \o w /\ a \in Seq(T) /\ w \in Seq(T)
      BY <1>1, <2>1
    <2> HIDE DEF a, b, w
    <2>4. Len(a) \in Nat /\ Len(w) \in Nat /\ Len(b) = Len(a) + Len(w)
          /\ \A k \in 1 .. Len(a) : b[k] = a[k]
      BY <2>3, ConcatProperties, LenProperties
    <2>5. Stays(a)
      BY <2>2, <2>4
    <2> HIDE DEF Stays
    <2> QED
      BY <1>1, <2>1, <2>5 DEF a
  <1> HIDE DEF S
  <1>5. \A d \in 0 .. n : d \in S
    BY <1>1, <1>3, <1>4, CountingUp
  <1>6. n - i \in 0 .. n /\ n - (n - i) = i
    BY <1>1 DEF n, p
  <1> HIDE DEF Stays
  <1>7. Stays(g[i])
    BY <1>5, <1>6 DEF S
  <1> QED
    BY <1>2, <1>7 DEF Stays, s

\* The i-th body and its size stand behind the first i - 1.
InPlace(m, g, i) ==
  LET body == m.payload[i]
      start == Len(g[i - 1])
      bytes == NW!Serialize(m)
  IN  /\ body \in Seq(NW!Byte) /\ Len(body) \in NW!Ulong
      /\ start \in Nat
      /\ Len(g[i]) = start + Width + Len(body)
      /\ Len(g[i]) <= Len(bytes)
      /\ \A j \in 1 .. Width : bytes[start + j] = NW!BigEndian(Len(body))[j]
      /\ \A j \in 1 .. Len(body) : bytes[start + Width + j] = body[j]

LEMMA BodyInPlace ==
  ASSUME NW!WireAssumption, NEW m, IsMessage(m), NEW g, IsLayout(g, m),
         NEW i \in 1 .. Len(m.payload)
  PROVE  InPlace(m, g, i)
  <1> DEFINE p == m.payload
             n == Len(p)
             T == NW!Byte
             s == NW!Serialize(m)
             a == g[i - 1]
             b == g[i]
             body == p[i]
             w == NW!WriteBody(body)
             v == NW!BigEndian(Len(body))
  <1>0. p \in Seq(Seq(T)) /\ n \in Nat /\ i \in 0 .. n /\ i - 1 \in 0 .. n
    <2>1. p \in Seq(Seq(T))
      BY DEF IsMessage
    <2>2. n \in Nat
      BY <2>1, LenProperties
    <2> HIDE DEF n
    <2>3. i \in 1 .. n
      BY DEF n
    <2> QED
      BY <2>1, <2>2, <2>3
  <1>1. body \in Seq(T) /\ Len(body) \in NW!Ulong
    BY <1>0, ElementOfSeq DEF IsMessage
  <1>2. a \in Seq(T) /\ b = a \o w
    BY <1>0 DEF IsLayout
  <1>3. /\ w \in Seq(T) /\ Len(w) = Width + Len(body) /\ Width \in Nat /\ Len(body) \in Nat
        /\ \A j \in 1 .. Width : w[j] = v[j]
        /\ \A j \in 1 .. Len(body) : w[Width + j] = body[j]
    BY <1>1, BodyIsSeq, LenProperties DEF NW!WireAssumption
  <1>4. Len(b) <= Len(s) /\ \A k \in 1 .. Len(b) : s[k] = b[k]
    BY <1>0, LayoutStays
  <1> HIDE DEF a, b, body, w, v, s
  <1>5. /\ Len(a) \in Nat /\ Len(b) = Len(a) + Len(w)
        /\ \A k \in 1 .. Len(a) + Len(w) : b[k] = IF k <= Len(a) THEN a[k] ELSE w[k - Len(a)]
    BY <1>2, <1>3, ConcatProperties, LenProperties
  <1>6. ASSUME NEW j \in 1 .. Len(w)
        PROVE  s[Len(a) + j] = w[j]
    <2>1. Len(a) + j \in 1 .. Len(b) /\ ~(Len(a) + j <= Len(a)) /\ Len(a) + j - Len(a) = j
      BY <1>3, <1>5
    <2> QED
      BY <1>4, <1>5, <2>1
  <1>7. ASSUME NEW j \in 1 .. Width
        PROVE  s[Len(a) + j] = v[j]
    <2>1. j \in 1 .. Len(w)
      BY <1>3
    <2> QED
      BY <1>3, <1>6, <2>1
  <1>8. ASSUME NEW j \in 1 .. Len(body)
        PROVE  s[Len(a) + Width + j] = body[j]
    <2>1. Width + j \in 1 .. Len(w) /\ Len(a) + (Width + j) = Len(a) + Width + j
      BY <1>3, <1>5
    <2> QED
      BY <1>3, <1>6, <2>1
  <1>9. Len(b) = Len(a) + Width + Len(body)
    BY <1>3, <1>5
  <1> QED
    BY <1>1, <1>4, <1>5, <1>7, <1>8, <1>9 DEF InPlace, a, b, body, s, v

\* The two numbers of the header stand before all bodies.
LEMMA HeaderInPlace ==
  ASSUME NW!WireAssumption, NEW m, IsMessage(m), NEW g, IsLayout(g, m)
  PROVE  /\ Len(g[0]) = 2 * Width
         /\ 2 * Width <= Len(NW!Serialize(m))
         /\ \A j \in 1 .. Width : /\ NW!Serialize(m)[j] = NW!BigEndian(m.id)[j]
                                  /\ NW!Serialize(m)[Width + j] = NW!BigEndian(m.app_id)[j]
  <1> DEFINE a == NW!BigEndian(m.id)
             b == NW!BigEndian(m.app_id)
             h == a \o b
             s == NW!Serialize(m)
             T == NW!Byte
  <1>1. a \in Seq(T) /\ b \in Seq(T) /\ Len(a) = Width /\ Len(b) = Width /\ Width \in Nat
    BY NumberIsSeq DEF IsMessage, NW!WireAssumption
  <1>2. g[0] = h
    BY DEF IsLayout
  <1>3. Len(h) <= Len(s) /\ \A k \in 1 .. Len(h) : s[k] = h[k]
    <2>1. 0 \in 0 .. Len(m.payload)
      BY LenProperties DEF IsMessage
    <2> QED
      BY <1>2, <2>1, LayoutStays
  <1> HIDE DEF a, b, s
  <1>4. /\ Len(h) = Width + Width
        /\ \A k \in 1 .. Width + Width : h[k] = IF k <= Width THEN a[k] ELSE b[k - Width]
    BY <1>1, ConcatProperties
  <1> HIDE DEF h
  <1>5. ASSUME NEW j \in 1 .. Width
        PROVE  s[j] = a[j] /\ s[Width + j] = b[j]
    <2>1. /\ j \in 1 .. Width + Width /\ j <= Width
          /\ Width + j \in 1 .. Width + Width /\ ~(Width + j <= Width) /\ Width + j - Width = j
      BY <1>1
    <2>2. h[j] = a[j] /\ h[Width + j] = b[j]
      BY <1>1, <1>4, <2>1
    <2> QED
      BY <1>3, <1>4, <2>1, <2>2
  <1>6. Len(h) = 2 * Width
    BY <1>1, <1>4
  <1> QED
    BY <1>2, <1>3, <1>5, <1>6 DEF a, b, s

-------------------------------------------------------------------------------
(* What is read *)

Layout(m) == CHOOSE g : IsLayout(g, m)

\* The first k bodies have been read, and no byte more.
HasRead(k) ==
  /\ message = [id |-> written.id, app_id |-> written.app_id,
                payload |-> SubSeq(written.payload, 1, k)]
  /\ offset = Len(Layout(written)[k])
  /\ offset <= Len(data)

WireInv ==
  /\ written \in Messages
  /\ data \in Seq(NW!Byte)
  /\ Len(data) <= Len(NW!Serialize(written))
  /\ \A k \in 1 .. Len(data) : data[k] = NW!Serialize(written)[k]
  /\ pc \in {"Header", "Bodies", "Done", "Threw"}
  /\ pc = "Header" => message = NW!NoMessage
  /\ pc \in {"Bodies", "Done"} => \E k \in 0 .. Len(written.payload) : HasRead(k)
  /\ pc = "Done" => offset + Width > Len(data)
  /\ pc = "Threw" => data # NW!Serialize(written)

\* What is assumed of the messages gives each of them a layout.
LEMMA MessageIs ==
  ASSUME NEW m \in Messages
  PROVE  IsMessage(m) /\ IsLayout(Layout(m), m)
  <1>1. IsMessage(m)
    <2>1. m \in [id : NW!Ulong, app_id : NW!Ulong, payload : Seq(Seq(NW!Byte))]
      BY WireAssumption DEF NW!MessageAssumption
    <2>2. DOMAIN m.payload = 1 .. Len(m.payload)
      BY <2>1, LenProperties
    <2> QED
      BY <2>1, <2>2, WireAssumption DEF NW!MessageAssumption, IsMessage
  <1> QED
    BY <1>1, WireAssumption, LayoutExists DEF Layout

\* Where a number was written it is read.
LEMMA NumberRead ==
  ASSUME data \in Seq(NW!Byte), NEW from \in Nat, from + Width <= Len(data),
         NEW v \in NW!Ulong,
         \A j \in 1 .. Width : data[from + j] = NW!BigEndian(v)[j]
  PROVE  NW!Number(from) = v
  <1> DEFINE b == NW!BigEndian(v)
             low == from + 1
             high == from + Width
             s == SubSeq(data, low, high)
  <1>1. b \in Seq(NW!Byte) /\ Len(b) = Width /\ Width \in Nat \ {0} /\ Len(data) \in Nat
    BY NumberIsSeq, WireAssumption, LenProperties DEF NW!WireAssumption
  <1> HIDE DEF b
  <1>2. low \in Int /\ high \in Int /\ \A i \in low .. high : data[i] \in NW!Byte
    <2>1. \A i \in from + 1 .. from + Width : i \in 1 .. Len(data)
      BY <1>1
    <2> QED
      BY <1>1, <2>1, ElementOfSeq
  <1>3. low <= high /\ high - low + 1 = Width /\ \A i \in 1 .. Width : low + i - 1 = from + i
    BY <1>1
  <1>4. NW!Number(from) = NW!Native(s)
    BY DEF NW!Number
  <1> HIDE DEF low, high
  <1>5. /\ s \in Seq(NW!Byte)
        /\ Len(s) = IF low <= high THEN high - low + 1 ELSE 0
        /\ \A i \in 1 .. high - low + 1 : s[i] = data[low + i - 1]
    BY <1>2, SubSeqProperties
  <1> HIDE DEF s
  <1>6. s = b
    <2>1. Len(s) = Width
      BY <1>3, <1>5
    <2>2. \A i \in 1 .. Len(s) : s[i] = b[i]
      BY <1>3, <1>5, <2>1 DEF b
    <2> QED
      BY <1>1, <1>5, <2>1, <2>2, SeqEqual
  <1>7. NW!Native(b) = v
    BY NumberReadBack, WireAssumption DEF b
  <1> QED
    BY <1>4, <1>6, <1>7

LEMMA WireInitInv ==
  ASSUME NW!Init
  PROVE  WireInv
  <1> DEFINE s == NW!Serialize(written)
  <1>1. PICK cut \in 0 .. Len(s) : data = SubSeq(s, 1, cut)
    BY DEF NW!Init
  <1>2. written \in Messages /\ pc = "Header" /\ message = NW!NoMessage
    BY DEF NW!Init
  <1>3. s \in Seq(NW!Byte) /\ Len(s) \in Nat
    <2>1. IsMessage(written) /\ IsLayout(Layout(written), written)
      BY <1>2, MessageIs
    <2>2. 0 \in 0 .. Len(written.payload)
      BY <2>1, LenProperties DEF IsMessage
    <2> QED
      BY <2>1, <2>2, LayoutStays, WireAssumption, LenProperties
  <1> HIDE DEF s
  <1>4. \A i \in 1 .. cut : s[i] \in NW!Byte
    BY <1>3, ElementOfSeq
  <1>5. /\ SubSeq(s, 1, cut) \in Seq(NW!Byte)
        /\ Len(SubSeq(s, 1, cut)) = IF 1 <= cut THEN cut - 1 + 1 ELSE 0
        /\ \A i \in 1 .. cut - 1 + 1 : SubSeq(s, 1, cut)[i] = s[1 + i - 1]
    BY <1>3, <1>4, SubSeqProperties
  <1>6. data \in Seq(NW!Byte) /\ Len(data) = cut /\ \A i \in 1 .. cut : data[i] = s[i]
    BY <1>1, <1>3, <1>5
  <1> QED
    BY <1>2, <1>3, <1>6 DEF WireInv, s

\* What a state of the invariant gives a step that reads a body.
LEMMA NextBody ==
  ASSUME WireInv, NEW k \in 0 .. Len(written.payload), HasRead(k), offset + Width <= Len(data)
  PROVE  /\ k + 1 \in 1 .. Len(written.payload)
         /\ NW!Number(offset) = Len(written.payload[k + 1])
         /\ NW!BodyEnd = Len(Layout(written)[k + 1])
         /\ NW!BodyEnd <= Len(NW!Serialize(written))
         /\ NW!BodyEnd <= Len(data) =>
              SubSeq(data, offset + Width + 1, NW!BodyEnd) = written.payload[k + 1]
  <1> DEFINE g == Layout(written)
             p == written.payload
             n == Len(p)
             ser == NW!Serialize(written)
             T == NW!Byte
  <1>1. IsMessage(written) /\ IsLayout(g, written) /\ NW!WireAssumption
    BY MessageIs, WireAssumption DEF WireInv
  <1>2. Width \in Nat \ {0} /\ n \in Nat /\ p \in Seq(Seq(T))
    BY <1>1, LenProperties DEF IsMessage, NW!WireAssumption
  <1>3. /\ data \in Seq(T) /\ Len(data) <= Len(ser)
        /\ \A i \in 1 .. Len(data) : data[i] = ser[i]
        /\ Len(data) \in Nat
    BY LenProperties DEF WireInv
  <1>4. offset = Len(g[k]) /\ offset \in Nat
    BY <1>1, LayoutStays DEF HasRead
  <1>5. k # n
    <2> SUFFICES ASSUME k = n PROVE FALSE
      OBVIOUS
    <2>1. g[k] = ser
      BY <1>1 DEF IsLayout
    <2> QED
      BY <1>2, <1>3, <1>4, <2>1
  <1> HIDE DEF n
  <1>6. k + 1 \in 1 .. n /\ k + 1 - 1 = k
    BY <1>2, <1>5 DEF n
  <1> DEFINE i == k + 1
             body == p[i]
             digits == NW!BigEndian(Len(body))
  <1>7. i \in 1 .. n /\ i - 1 = k
    BY <1>6
  <1> HIDE DEF i
  <1>8. /\ body \in Seq(T) /\ Len(body) \in NW!Ulong
        /\ Len(g[i]) = Len(g[i - 1]) + Width + Len(body)
        /\ Len(g[i]) <= Len(ser)
        /\ \A j \in 1 .. Width : ser[Len(g[i - 1]) + j] = digits[j]
        /\ \A j \in 1 .. Len(body) : ser[Len(g[i - 1]) + Width + j] = body[j]
    <2>1. i \in 1 .. Len(written.payload)
      BY <1>7 DEF n
    <2>2. InPlace(written, g, i)
      BY <1>1, <2>1, BodyInPlace
    <2> QED
      BY <2>2 DEF InPlace
  <1>9. Len(g[i - 1]) = offset /\ Len(body) \in Nat
    BY <1>4, <1>7, <1>8, LenProperties
  <1> HIDE DEF g, ser, body, digits
  <1>10. \A j \in 1 .. Width : data[offset + j] = digits[j]
    <2>1. \A j \in 1 .. Width : offset + j \in 1 .. Len(data)
      BY <1>2, <1>3, <1>4
    <2> QED
      BY <1>3, <1>8, <1>9, <2>1
  <1>11. NW!Number(offset) = Len(body)
    BY <1>3, <1>4, <1>8, <1>10, NumberRead DEF digits
  <1> DEFINE low == offset + Width + 1
             high == offset + Width + Len(body)
             s == SubSeq(data, low, high)
  <1>12. NW!BodyEnd = high /\ high = Len(g[i])
    BY <1>8, <1>9, <1>11 DEF NW!BodyEnd
  <1>13. ASSUME high <= Len(data)
         PROVE  s = body
    <2>1. \A j \in low .. high : j \in 1 .. Len(data)
      BY <1>2, <1>3, <1>4, <1>9, <1>13
    <2>2. low \in Int /\ high \in Int /\ \A j \in low .. high : data[j] \in T
      BY <1>2, <1>3, <1>4, <1>9, <2>1, ElementOfSeq
    <2>3. /\ high - low + 1 = Len(body) /\ (low <= high \/ Len(body) = 0)
          /\ (IF low <= high THEN high - low + 1 ELSE 0) = Len(body)
          /\ \A j \in 1 .. Len(body) : low + j - 1 = offset + Width + j
                                       /\ offset + Width + j \in 1 .. Len(data)
      BY <1>2, <1>3, <1>4, <1>9, <1>13
    <2> HIDE DEF low, high
    <2>4. /\ s \in Seq(T)
          /\ Len(s) = IF low <= high THEN high - low + 1 ELSE 0
          /\ \A j \in 1 .. high - low + 1 : s[j] = data[low + j - 1]
      BY <2>2, SubSeqProperties
    <2> HIDE DEF s
    <2>5. Len(s) = Len(body)
      BY <2>3, <2>4
    <2>6. \A j \in 1 .. Len(body) : s[j] = body[j]
      BY <1>3, <1>8, <1>9, <2>3, <2>4, SMTT(30)
    <2> QED
      BY <1>8, <2>4, <2>5, <2>6, SeqEqual
  <1> QED
    <2>1. s = SubSeq(data, offset + Width + 1, NW!BodyEnd)
      BY <1>12
    <2> HIDE DEF s, high
    <2> QED
      BY <1>7, <1>8, <1>11, <1>12, <1>13, <2>1 DEF body, i, g, ser, n

\* Reading the header, what the message is found to be.
LEMMA ReadHeaderInv ==
  ASSUME WireInv, NW!ReadHeader
  PROVE  HasRead(0)'
  <1> DEFINE g == Layout(written)
             ser == NW!Serialize(written)
             first == NW!BigEndian(written.id)
             second == NW!BigEndian(written.app_id)
  <1>1. IsMessage(written) /\ IsLayout(g, written) /\ NW!WireAssumption
    BY MessageIs, WireAssumption DEF WireInv
  <1>2. /\ Len(g[0]) = 2 * Width
        /\ \A j \in 1 .. Width : ser[j] = first[j] /\ ser[Width + j] = second[j]
    BY <1>1, HeaderInPlace
  <1>3. /\ data \in Seq(NW!Byte) /\ \A i \in 1 .. Len(data) : data[i] = ser[i]
        /\ Len(data) \in Nat /\ 2 * Width <= Len(data) /\ Width \in Nat \ {0}
    BY <1>1, LenProperties DEF WireInv, NW!ReadHeader, NW!WireAssumption
  <1> HIDE DEF g, ser, first, second
  <1>4. \A j \in 1 .. Width : /\ j \in 1 .. Len(data) /\ Width + j \in 1 .. Len(data)
                              /\ 0 + j = j
    BY <1>3
  <1>5. \A j \in 1 .. Width : data[0 + j] = first[j] /\ data[Width + j] = second[j]
    BY <1>2, <1>3, <1>4
  <1>6. 0 \in Nat /\ Width \in Nat /\ 0 + Width <= Len(data) /\ Width + Width <= Len(data)
    BY <1>3
  <1>7. written.id \in NW!Ulong /\ written.app_id \in NW!Ulong
        /\ written.payload \in Seq(Seq(NW!Byte))
    BY <1>1 DEF IsMessage
  <1>8. NW!Number(0) = written.id
    BY <1>3, <1>5, <1>6, <1>7, NumberRead DEF first
  <1>9. NW!Number(Width) = written.app_id
    BY <1>3, <1>5, <1>6, <1>7, NumberRead DEF second
  <1>10. SubSeq(written.payload, 1, 0) = <<>>
    BY SubSeqEmpty
  <1>11. /\ message' = [NW!NoMessage EXCEPT !.id = NW!Number(0), !.app_id = NW!Number(Width)]
         /\ offset' = 2 * Width /\ written' = written /\ data' = data
    BY DEF NW!ReadHeader
  <1>12. message' = [id |-> written.id, app_id |-> written.app_id, payload |-> <<>>]
    BY <1>8, <1>9, <1>11 DEF NW!NoMessage
  <1> QED
    BY <1>2, <1>3, <1>10, <1>11, <1>12 DEF HasRead, g

\* Reading a body, one more than before has been read.
LEMMA ReadBodyInv ==
  ASSUME WireInv, NW!ReadBody
  PROVE  \E k \in 0 .. Len(written.payload) : HasRead(k)'
  <1> DEFINE p == written.payload
  <1>1. pc = "Bodies" /\ offset + Width <= Len(data) /\ NW!BodyEnd <= Len(data)
    BY DEF NW!ReadBody, NW!HasSize
  <1>2. PICK k \in 0 .. Len(p) : HasRead(k)
    BY <1>1 DEF WireInv
  <1>3. /\ k + 1 \in 1 .. Len(p)
        /\ NW!BodyEnd = Len(Layout(written)[k + 1])
        /\ SubSeq(data, offset + Width + 1, NW!BodyEnd) = p[k + 1]
    BY <1>1, <1>2, NextBody
  <1>4. p \in Seq(Seq(NW!Byte)) /\ Len(p) \in Nat
    BY MessageIs, LenProperties DEF WireInv, IsMessage
  <1>5. SubSeq(p, 1, k + 1) = Append(SubSeq(p, 1, k), p[k + 1])
    BY <1>3, <1>4, SMTT(30)
  <1>6. /\ message' = [message EXCEPT !.payload =
                         Append(@, SubSeq(data, offset + Width + 1, NW!BodyEnd))]
        /\ offset' = NW!BodyEnd /\ written' = written /\ data' = data
    BY DEF NW!ReadBody
  <1>7. message = [id |-> written.id, app_id |-> written.app_id, payload |-> SubSeq(p, 1, k)]
    BY <1>2 DEF HasRead
  <1>8. message' = [id |-> written.id, app_id |-> written.app_id,
                    payload |-> Append(SubSeq(p, 1, k), p[k + 1])]
    BY <1>3, <1>6, <1>7
  <1>9. HasRead(k + 1)'
    BY <1>1, <1>3, <1>5, <1>6, <1>8 DEF HasRead
  <1>10. k + 1 \in 0 .. Len(p)
    BY <1>3, <1>4
  <1> QED
    BY <1>9, <1>10

LEMMA WireStepInv ==
  ASSUME WireInv, [NW!Next]_(NW!vars)
  PROVE  WireInv'
  <1> DEFINE ser == NW!Serialize(written)
             Stays == UNCHANGED <<written, data>>
             Known == /\ written \in Messages
                      /\ data \in Seq(NW!Byte)
                      /\ Len(data) <= Len(ser)
                      /\ \A k \in 1 .. Len(data) : data[k] = ser[k]
  <1>1. Known
    BY DEF WireInv
  <1>2. ASSUME Stays
        PROVE  Known' /\ ser' = ser
    BY <1>1, <1>2
  <1>3. /\ IsMessage(written) /\ IsLayout(Layout(written), written) /\ NW!WireAssumption
        /\ Len(data) \in Nat /\ Width \in Nat
    BY <1>1, MessageIs, WireAssumption, LenProperties DEF NW!WireAssumption
  <1>4. CASE NW!TooShort
    <2>1. Stays /\ pc' = "Threw" /\ ~(2 * Width <= Len(data))
      BY <1>3, <1>4 DEF NW!TooShort, NW!Throw
    <2>2. 2 * Width <= Len(ser)
      BY <1>3, HeaderInPlace
    <2>3. data # ser
      BY <2>1, <2>2
    <2> HIDE DEF ser
    <2> QED
      BY <1>2, <2>1, <2>3 DEF WireInv, ser
  <1>5. CASE NW!ReadHeader
    <2>1. Stays /\ pc' = "Bodies"
      BY <1>5 DEF NW!ReadHeader
    <2>2. HasRead(0)' /\ 0 \in 0 .. Len(written.payload)
      BY <1>3, <1>5, ReadHeaderInv, LenProperties DEF IsMessage
    <2> HIDE DEF ser
    <2> QED
      BY <1>2, <2>1, <2>2 DEF WireInv, ser
  <1>6. CASE NW!BodyTooLong
    <2>1. /\ Stays /\ pc' = "Threw" /\ pc = "Bodies" /\ offset + Width <= Len(data)
          /\ NW!BodyEnd > Len(data)
      BY <1>6 DEF NW!BodyTooLong, NW!HasSize, NW!Throw
    <2>2. PICK k \in 0 .. Len(written.payload) : HasRead(k)
      BY <2>1 DEF WireInv
    <2>3. NW!BodyEnd <= Len(ser) /\ NW!BodyEnd = Len(Layout(written)[k + 1])
          /\ k + 1 \in 1 .. Len(written.payload)
      BY <2>1, <2>2, NextBody
    <2>4. NW!BodyEnd \in Nat
      <3>1. k + 1 \in 0 .. Len(written.payload)
        BY <2>3
      <3> QED
        BY <1>3, <2>3, <3>1, LayoutStays
    <2>5. data # ser
      BY <1>3, <2>1, <2>3, <2>4
    <2> HIDE DEF ser
    <2> QED
      BY <1>2, <2>1, <2>5 DEF WireInv, ser
  <1>7. CASE NW!ReadBody
    <2>1. Stays /\ pc' = "Bodies"
      BY <1>7 DEF NW!ReadBody, NW!HasSize
    <2>2. \E k \in 0 .. Len(written.payload) : HasRead(k)'
      BY <1>7, ReadBodyInv
    <2> HIDE DEF ser
    <2> QED
      BY <1>2, <2>1, <2>2 DEF WireInv, ser
  <1>8. CASE NW!Return
    <2>1. Stays /\ pc = "Bodies" /\ pc' = "Done" /\ offset + Width > Len(data)
          /\ offset' = offset /\ message' = message
      BY <1>8 DEF NW!Return
    <2>2. PICK k \in 0 .. Len(written.payload) : HasRead(k)
      BY <2>1 DEF WireInv
    <2>3. HasRead(k)'
      BY <2>1, <2>2 DEF HasRead
    <2> HIDE DEF ser
    <2> QED
      BY <1>2, <2>1, <2>2, <2>3 DEF WireInv, ser
  <1>9. CASE UNCHANGED NW!vars
    BY <1>9 DEF NW!vars, WireInv, HasRead
  <1> QED
    BY <1>4, <1>5, <1>6, <1>7, <1>8, <1>9 DEF NW!Next

\* What has been read when there is no size left is what was promised.
LEMMA ReadWhole ==
  ASSUME WireInv
  PROVE  NW!RoundTrip /\ NW!CutShowsNoGarbage
  <1> DEFINE p == written.payload
             n == Len(p)
             ser == NW!Serialize(written)
             g == Layout(written)
  <1>1. IsMessage(written) /\ IsLayout(g, written) /\ NW!WireAssumption
    BY MessageIs, WireAssumption DEF WireInv
  <1>2. p \in Seq(Seq(NW!Byte)) /\ n \in Nat /\ Width \in Nat \ {0}
    BY <1>1, LenProperties DEF IsMessage, NW!WireAssumption
  <1>3. ASSUME pc = "Done", NEW k \in 0 .. n, HasRead(k)
        PROVE  /\ message.id = written.id /\ message.app_id = written.app_id
               /\ NW!IsPrefix(message.payload, p)
               /\ data = ser => message = written
    <2>1. message = [id |-> written.id, app_id |-> written.app_id, payload |-> SubSeq(p, 1, k)]
      BY <1>3 DEF HasRead
    <2>2. Len(SubSeq(p, 1, k)) = k /\ SubSeq(SubSeq(p, 1, k), 1, k) = SubSeq(p, 1, k)
      BY <1>2
    <2>3. NW!IsPrefix(message.payload, p)
      BY <1>2, <2>1, <2>2 DEF NW!IsPrefix
    <2>4. ASSUME data = ser
          PROVE  message = written
      <3>1. k = n
        <4> SUFFICES ASSUME k # n PROVE FALSE
          OBVIOUS
        <4> HIDE DEF n
        <4>1. PICK i \in 1 .. n : i = k + 1 /\ i - 1 = k
          <5>1. k + 1 \in 1 .. n /\ k + 1 - 1 = k
            BY <1>2
          <5> QED
            BY <5>1
        <4> DEFINE body == p[i]
        <4>2. i \in 1 .. Len(written.payload)
          BY <4>1 DEF n
        <4>3. InPlace(written, g, i)
          BY <1>1, <4>2, BodyInPlace
        <4>4. /\ Len(g[i - 1]) \in Nat /\ Len(body) \in Nat
              /\ Len(g[i]) = Len(g[i - 1]) + Width + Len(body) /\ Len(g[i]) <= Len(ser)
          BY <4>3, LenProperties DEF InPlace
        <4>5. offset = Len(g[i - 1]) /\ offset + Width > Len(data)
          BY <1>3, <4>1 DEF HasRead, WireInv
        <4> HIDE DEF g, ser, body
        <4> QED
          BY <1>2, <2>4, <4>4, <4>5
      <3>2. SubSeq(p, 1, k) = p
        BY <1>2, <3>1, SubSeqFull
      <3>3. written = [id |-> written.id, app_id |-> written.app_id, payload |-> p]
        BY <1>1 DEF IsMessage
      <3> QED
        BY <2>1, <3>2, <3>3
    <2> QED
      BY <2>1, <2>3, <2>4
  <1>4. pc = "Done" => \E k \in 0 .. n : HasRead(k)
    BY DEF WireInv
  <1>5. pc = "Threw" => data # ser
    BY DEF WireInv
  <1> QED
    BY <1>3, <1>4, <1>5 DEF NW!RoundTrip, NW!CutShowsNoGarbage

LEMMA WireAlone == PartsSpec => NW!Spec
  <1>1. PartsInit => NW!Init
    BY DEF PartsInit
  <1>2. [PartsNext]_partsVars => [NW!Next]_(NW!vars)
    BY DEF PartsNext, partsVars, wireVars, NW!vars
  <1> QED
    BY <1>1, <1>2, PTL DEF PartsSpec, NW!Spec

LEMMA WireInvariant == NW!Spec => []WireInv
  BY WireInitInv, WireStepInv, PTL DEF NW!Spec

\* A datagram that arrives whole is read as the message that was written, whatever its
\* numbers, its bodies and their sizes, and one cut anywhere is rejected or read as the
\* message without its last bodies (net/utils.cpp:3-97).
THEOREM ReadsWhatWasWrittenCorrect == PartsSpec => []ReadsWhatWasWritten
  <1>1. WireInv => ReadsWhatWasWritten
    BY ReadWhole DEF ReadsWhatWasWritten
  <1> QED
    BY <1>1, WireAlone, WireInvariant, PTL

-------------------------------------------------------------------------------
(* The crash monitor                                                       *)

Handlers == [signal : Signals, at : CM!Steps]

MonitorShape ==
  /\ handled \subseteq Signals
  /\ frames \in [Threads -> Seq(Handlers)]
  /\ blocked \in [Threads -> SUBSET Signals]
  /\ catching \in [Threads -> CM!Exceptions]
  /\ log \in Signals \cup {"none", "cut"}
  /\ spoilt \in BOOLEAN /\ rearmed \in BOOLEAN

\* There is a log, or what makes up for it.
Logged == log \in Signals \/ (log = "cut" /\ (spoilt \/ \E t \in Threads : CM!Writes(t)))

\* How the handler on top has come to where it is.
Reported(t) ==
  frames[t] # <<>> =>
    /\ CM!Top(t).at = "Tell" => catching[t] = "runtime"
    /\ CM!Top(t).at = "Dialogue" => Logged
    /\ CM!Top(t).at = "Abort" => Logged \/ catching[t] = "runtime"

\* Beyond its first step a handler has no SIGABRT to fear.
Disarmed ==
  ~rearmed => \A t \in Threads : frames[t] # <<>> /\ CM!Top(t).at # "Enter" => "ABRT" \notin handled

\* A signal is blocked on the thread that handles it.
OwnBlocked == \A t \in Threads : \A i \in 1 .. CM!Depth(t) : frames[t][i].signal \in blocked[t]

MonitorInv ==
  /\ MonitorShape
  /\ \A t \in Threads : Reported(t)
  /\ Disarmed
  /\ OwnBlocked
  /\ CM!LeavesLog
  /\ CM!NotEnteredTwice

-------------------------------------------------------------------------------
\* A handler's stack is a sequence of handlers.
LEMMA StackOf ==
  ASSUME MonitorShape, NEW t \in Threads
  PROVE  /\ frames[t] \in Seq(Handlers) /\ CM!Depth(t) \in Nat
         /\ \A i \in 1 .. CM!Depth(t) : frames[t][i] \in Handlers
         /\ frames[t] # <<>> => CM!Depth(t) \in 1 .. CM!Depth(t) /\ CM!Top(t) \in Handlers
  <1>1. frames[t] \in Seq(Handlers)
    BY DEF MonitorShape
  <1>2. CM!Depth(t) \in Nat /\ \A i \in 1 .. CM!Depth(t) : frames[t][i] \in Handlers
    BY <1>1, LenProperties, ElementOfSeq DEF CM!Depth
  <1>3. frames[t] # <<>> => CM!Depth(t) # 0
    BY <1>1, EmptySeq DEF CM!Depth
  <1> QED
    BY <1>1, <1>2, <1>3 DEF CM!Top

\* A step of the handler on top.
LEMMA GoStep ==
  ASSUME MonitorShape, NEW t \in Threads, frames[t] # <<>>, NEW step \in CM!Steps, CM!Go(t, step)
  PROVE  /\ frames' \in [Threads -> Seq(Handlers)]
         /\ \A u \in Threads \ {t} : frames'[u] = frames[u]
         /\ CM!Depth(t)' = CM!Depth(t) /\ frames'[t] # <<>>
         /\ CM!Top(t)'.at = step /\ CM!Top(t)'.signal = CM!Top(t).signal
         /\ \A i \in 1 .. CM!Depth(t) : frames'[t][i].signal = frames[t][i].signal
         /\ \A i \in 1 .. CM!Depth(t) - 1 : frames'[t][i] = frames[t][i]
  <1> DEFINE n == CM!Depth(t)
             f == [frames[t] EXCEPT ![n].at = step]
  <1>1. frames[t] \in Seq(Handlers) /\ n \in Nat /\ n \in 1 .. n /\ frames[t][n] \in Handlers
    BY StackOf DEF CM!Top
  <1>2. frames' = [frames EXCEPT ![t] = f]
    BY DEF CM!Go
  <1>3. [frames[t][n] EXCEPT !.at = step] \in Handlers
    BY <1>1 DEF Handlers
  <1>4. f = [frames[t] EXCEPT ![n] = [frames[t][n] EXCEPT !.at = step]]
    OBVIOUS
  <1>5. /\ f \in Seq(Handlers) /\ Len(f) = n
        /\ \A i \in 1 .. n : f[i] = IF i = n THEN [frames[t][n] EXCEPT !.at = step] ELSE frames[t][i]
    <2> HIDE DEF f
    <2>1. n = Len(frames[t]) /\ Len(frames[t]) \in Nat /\ DOMAIN frames[t] = 1 .. n
      BY <1>1, LenProperties DEF CM!Depth
    <2> HIDE DEF n
    <2>2. f \in Seq(Handlers) /\ Len(f) = Len(frames[t])
      BY <1>1, <1>3, <1>4, <2>1, ExceptSeq
    <2>3. \A i \in 1 .. n : f[i] = IF i = n THEN [frames[t][n] EXCEPT !.at = step] ELSE frames[t][i]
      BY <1>4, <2>1
    <2> QED
      BY <2>1, <2>2, <2>3
  <1> HIDE DEF f
  <1>6. frames' \in [Threads -> Seq(Handlers)] /\ \A u \in Threads \ {t} : frames'[u] = frames[u]
    BY <1>2, <1>5 DEF MonitorShape
  <1>7. frames'[t] = f
    BY <1>2 DEF MonitorShape
  <1>8. CM!Depth(t)' = n
    BY <1>5, <1>7 DEF CM!Depth
  <1>9. frames'[t] # <<>>
    BY <1>1, <1>5, <1>7, EmptySeq
  <1>10. CM!Top(t)' = [frames[t][n] EXCEPT !.at = step]
    <2>1. CM!Top(t)' = f[n]
      BY <1>7, <1>8 DEF CM!Top
    <2> QED
      BY <1>1, <1>5, <2>1
  <1>11. CM!Top(t)'.at = step /\ CM!Top(t)'.signal = CM!Top(t).signal
    BY <1>1, <1>10 DEF CM!Top, Handlers
  <1>12. \A i \in 1 .. n : f[i].signal = frames[t][i].signal
    BY <1>1, <1>5 DEF Handlers
  <1>13. \A i \in 1 .. n - 1 : f[i] = frames[t][i]
    <2>1. \A i \in 1 .. n - 1 : i \in 1 .. n /\ i # n
      BY <1>1
    <2> QED
      BY <1>5, <2>1
  <1> QED
    BY <1>6, <1>7, <1>8, <1>9, <1>11, <1>12, <1>13

\* A signal that has the handler starts it on top of the others.
LEMMA Pushed ==
  ASSUME MonitorShape, NEW t \in Threads, NEW f \in Handlers,
         frames' = [frames EXCEPT ![t] = Append(@, f)]
  PROVE  /\ frames' \in [Threads -> Seq(Handlers)]
         /\ \A u \in Threads \ {t} : frames'[u] = frames[u]
         /\ CM!Depth(t)' = CM!Depth(t) + 1 /\ frames'[t] # <<>>
         /\ CM!Top(t)' = f
         /\ \A i \in 1 .. CM!Depth(t) : frames'[t][i] = frames[t][i]
         /\ frames'[t][CM!Depth(t) + 1] = f
  <1> DEFINE g == Append(frames[t], f)
  <1>1. frames[t] \in Seq(Handlers) /\ CM!Depth(t) = Len(frames[t]) /\ CM!Depth(t) \in Nat
    BY StackOf DEF CM!Depth
  <1>2. /\ g \in Seq(Handlers) /\ Len(g) = Len(frames[t]) + 1
        /\ \A i \in 1 .. Len(frames[t]) : g[i] = frames[t][i]
        /\ g[Len(frames[t]) + 1] = f
    BY <1>1, AppendProperties
  <1> HIDE DEF g
  <1>3. frames' \in [Threads -> Seq(Handlers)] /\ frames'[t] = g
        /\ \A u \in Threads \ {t} : frames'[u] = frames[u]
    BY <1>2 DEF MonitorShape, g
  <1>4. CM!Depth(t)' = CM!Depth(t) + 1
    BY <1>1, <1>2, <1>3 DEF CM!Depth
  <1>5. g # <<>>
    BY <1>1, <1>2, EmptySeq
  <1>6. CM!Top(t)' = g[CM!Depth(t) + 1]
    BY <1>3, <1>4 DEF CM!Top
  <1> QED
    BY <1>1, <1>2, <1>3, <1>4, <1>5, <1>6

-------------------------------------------------------------------------------
\* A handler that goes on, and what it needs for it.
LEMMA GoInv ==
  ASSUME MonitorInv, fate = "running", NEW t \in Threads, frames[t] # <<>>,
         NEW step \in CM!Steps \ {"Enter"}, CM!Go(t, step),
         handled' \subseteq handled, rearmed \/ "ABRT" \notin handled',
         UNCHANGED <<blocked, catching, fate, rearmed>>,
         log' \in Signals \cup {"none", "cut"}, spoilt' \in BOOLEAN,
         Logged => Logged',
         step = "Tell" => catching[t] = "runtime",
         step = "Dialogue" => Logged',
         step = "Abort" => Logged' \/ catching[t] = "runtime"
  PROVE  MonitorInv'
  <1>1. MonitorShape
    BY DEF MonitorInv
  <1>2. /\ frames' \in [Threads -> Seq(Handlers)]
        /\ \A u \in Threads \ {t} : frames'[u] = frames[u]
        /\ CM!Depth(t)' = CM!Depth(t) /\ frames'[t] # <<>>
        /\ CM!Top(t)'.at = step
        /\ \A i \in 1 .. CM!Depth(t) : frames'[t][i].signal = frames[t][i].signal
    BY <1>1, GoStep
  <1>3. \A u \in Threads \ {t} : CM!Depth(u)' = CM!Depth(u) /\ CM!Top(u)' = CM!Top(u)
    BY <1>2 DEF CM!Depth, CM!Top
  <1>4. MonitorShape'
    BY <1>1, <1>2 DEF MonitorShape
  <1>5. ASSUME NEW u \in Threads
        PROVE  Reported(u)'
    <2>1. CASE u = t
      BY <1>2, <2>1 DEF Reported
    <2>2. CASE u # t
      <3>1. Reported(u)
        BY DEF MonitorInv
      <3> QED
        BY <1>2, <1>3, <2>2, <3>1 DEF Reported
    <2> QED
      BY <2>1, <2>2
  <1>6. Disarmed'
    BY <1>2, <1>3 DEF MonitorInv, Disarmed
  <1>7. OwnBlocked'
    <2> SUFFICES ASSUME NEW u \in Threads, NEW i \in (1 .. CM!Depth(u))'
                 PROVE  frames'[u][i].signal \in blocked'[u]
      BY DEF OwnBlocked
    <2>1. i \in 1 .. CM!Depth(u) /\ frames'[u][i].signal = frames[u][i].signal
      BY <1>2, <1>3
    <2> QED
      BY <2>1 DEF MonitorInv, OwnBlocked
  <1>8. CM!LeavesLog'
    BY DEF CM!LeavesLog
  <1>9. CM!NotEnteredTwice'
    <2> SUFFICES ASSUME ~rearmed, NEW u \in Threads, NEW i \in (1 .. CM!Depth(u))', NEW j \in (1 .. CM!Depth(u))',
                        frames'[u][i].signal = frames'[u][j].signal
                 PROVE  i = j
      BY DEF CM!NotEnteredTwice
    <2>1. i \in 1 .. CM!Depth(u) /\ frames'[u][i].signal = frames[u][i].signal
      BY <1>2, <1>3
    <2>2. j \in 1 .. CM!Depth(u) /\ frames'[u][j].signal = frames[u][j].signal
      BY <1>2, <1>3
    <2> QED
      BY <2>1, <2>2 DEF MonitorInv, CM!NotEnteredTwice
  <1> QED
    BY <1>4, <1>5, <1>6, <1>7, <1>8, <1>9 DEF MonitorInv

\* A signal that is handled, or ends the process.
LEMMA HandleInv ==
  ASSUME MonitorInv, fate = "running", NEW t \in Threads, NEW s \in Signals, NEW place \in CM!Places,
         NEW default, CM!Handle(t, s, place, default),
         UNCHANGED <<log, spoilt, rearmed>>,
         catching' \in [Threads -> CM!Exceptions],
         \A u \in Threads \ {t} : catching'[u] = catching[u],
         frames[t] # <<>> => catching'[t] \in {catching[t], "runtime"},
         s \in handled /\ ~rearmed => \A i \in 1 .. CM!Depth(t) : frames[t][i].signal # s,
         default = "aborted" => CM!At(t, "Abort") /\ UNCHANGED catching
  PROVE  MonitorInv'
  <1>1. MonitorShape
    BY DEF MonitorInv
  <1>2. CASE s \notin handled
    <2>1. UNCHANGED <<handled, frames, blocked>> /\ fate' = default
      BY <1>2 DEF CM!Handle
    <2>2. \A u \in Threads : CM!Depth(u)' = CM!Depth(u) /\ CM!Top(u)' = CM!Top(u) /\ (CM!Writes(u) <=> CM!Writes(u)')
      BY <2>1 DEF CM!Depth, CM!Top, CM!Writes
    <2>3. Logged <=> Logged'
      BY <2>2 DEF Logged
    <2>4. ASSUME NEW u \in Threads
          PROVE  Reported(u)'
      <3>1. Reported(u)
        BY DEF MonitorInv
      <3>2. frames[u] # <<>> => catching'[u] = catching[u] \/ catching'[u] = "runtime"
        OBVIOUS
      <3> QED
        BY <2>1, <2>2, <2>3, <3>1, <3>2 DEF Reported
    <2>5. MonitorShape' /\ Disarmed' /\ OwnBlocked' /\ CM!NotEnteredTwice'
      BY <1>1, <2>1, <2>2 DEF MonitorInv, MonitorShape, Disarmed, OwnBlocked, CM!NotEnteredTwice
    <2>6. CM!LeavesLog'
      <3> SUFFICES ASSUME default = "aborted"
                   PROVE  CM!LeavesLog'
        BY <2>1 DEF CM!LeavesLog
      <3>1. frames[t] # <<>> /\ CM!Top(t).at = "Abort" /\ Reported(t) /\ UNCHANGED catching
        BY DEF CM!At, MonitorInv
      <3>2. Logged \/ catching[t] = "runtime"
        BY <3>1 DEF Reported
      <3>3. CASE Logged
        BY <2>2, <3>3 DEF Logged, CM!LeavesLog
      <3>4. CASE catching[t] = "runtime"
        BY <2>1, <2>2, <3>1, <3>4 DEF CM!LeavesLog
      <3> QED
        BY <3>2, <3>3, <3>4
    <2> QED
      BY <2>4, <2>5, <2>6 DEF MonitorInv
  <1>3. CASE s \in handled
    <2> DEFINE f == [signal |-> s, at |-> place]
    <2>1. f \in Handlers /\ f.at \in {"Enter", "Stuck"} /\ f.signal = s
      BY DEF Handlers, CM!Steps, CM!Places
    <2>2. /\ frames' = [frames EXCEPT ![t] = Append(@, f)]
          /\ handled' = IF place = "Stuck" THEN handled \ {"ABRT"} ELSE handled
          /\ blocked' = [blocked EXCEPT ![t] = @ \cup {s}]
          /\ UNCHANGED fate
      BY <1>3 DEF CM!Handle
    <2> HIDE DEF f
    <2>3. /\ frames' \in [Threads -> Seq(Handlers)]
          /\ \A u \in Threads \ {t} : frames'[u] = frames[u]
          /\ CM!Depth(t)' = CM!Depth(t) + 1 /\ frames'[t] # <<>>
          /\ CM!Top(t)' = f
          /\ \A i \in 1 .. CM!Depth(t) : frames'[t][i] = frames[t][i]
          /\ frames'[t][CM!Depth(t) + 1] = f
      BY <1>1, <2>1, <2>2, Pushed
    <2>4. \A u \in Threads \ {t} : CM!Depth(u)' = CM!Depth(u) /\ CM!Top(u)' = CM!Top(u)
      BY <2>3 DEF CM!Depth, CM!Top
    <2>5. CM!Depth(t) \in Nat /\ \A i \in (1 .. CM!Depth(t))' : i \in 1 .. CM!Depth(t) \/ i = CM!Depth(t) + 1
      BY <1>1, <2>3, StackOf
    <2>6. ASSUME NEW u \in Threads, CM!Writes(u)
          PROVE  CM!Writes(u)'
      <3>1. PICK i \in 1 .. CM!Depth(u) : frames[u][i].at = "Put"
        BY <2>6 DEF CM!Writes
      <3>2. i \in (1 .. CM!Depth(u))' /\ frames'[u][i] = frames[u][i]
        BY <2>3, <2>4, <2>5
      <3> QED
        BY <3>1, <3>2 DEF CM!Writes
    <2>7. Logged => Logged'
      BY <2>6 DEF Logged
    <2>8. ASSUME NEW u \in Threads
          PROVE  Reported(u)'
      <3>1. CASE u = t
        BY <2>1, <2>3, <3>1 DEF Reported
      <3>2. CASE u # t
        <4>1. Reported(u)
          BY DEF MonitorInv
        <4> QED
          BY <2>3, <2>4, <2>7, <3>2, <4>1 DEF Reported
      <3> QED
        BY <3>1, <3>2
    <2>9. MonitorShape'
      BY <1>1, <2>2, <2>3 DEF MonitorShape
    <2>10. Disarmed'
      <3> SUFFICES ASSUME ~rearmed, NEW u \in Threads, frames'[u] # <<>>, CM!Top(u)'.at # "Enter"
                   PROVE  "ABRT" \notin handled'
        BY DEF Disarmed
      <3>1. CASE u = t
        <4>1. place = "Stuck"
          BY <2>3, <3>1 DEF f, CM!Places
        <4> QED
          BY <2>2, <4>1
      <3>2. CASE u # t
        <4>1. "ABRT" \notin handled
          BY <2>3, <2>4, <3>2 DEF MonitorInv, Disarmed
        <4> QED
          BY <2>2, <4>1
      <3> QED
        BY <3>1, <3>2
    <2>11. OwnBlocked'
      <3> SUFFICES ASSUME NEW u \in Threads, NEW i \in (1 .. CM!Depth(u))'
                   PROVE  frames'[u][i].signal \in blocked'[u]
        BY DEF OwnBlocked
      <3>1. blocked[u] \subseteq blocked'[u] /\ s \in blocked'[t]
        BY <1>1, <2>2 DEF MonitorShape
      <3>2. CASE i \in 1 .. CM!Depth(u)
        <4>1. frames'[u][i] = frames[u][i] /\ frames[u][i].signal \in blocked[u]
          BY <2>3, <3>2 DEF MonitorInv, OwnBlocked
        <4> QED
          BY <3>1, <4>1
      <3>3. CASE i \notin 1 .. CM!Depth(u)
        <4>1. u = t /\ i = CM!Depth(t) + 1
          BY <2>4, <2>5, <3>3
        <4> QED
          BY <2>1, <2>3, <3>1, <4>1
      <3> QED
        BY <3>2, <3>3
    <2>12. CM!LeavesLog'
      BY <2>2 DEF CM!LeavesLog
    <2>13. CM!NotEnteredTwice'
      <3> SUFFICES ASSUME ~rearmed, NEW u \in Threads, NEW i \in (1 .. CM!Depth(u))', NEW j \in (1 .. CM!Depth(u))',
                          frames'[u][i].signal = frames'[u][j].signal
                   PROVE  i = j
        BY DEF CM!NotEnteredTwice
      <3>1. CASE u # t
        BY <2>3, <2>4, <3>1 DEF MonitorInv, CM!NotEnteredTwice
      <3>2. CASE u = t
        <4>1. \A k \in 1 .. CM!Depth(t) : frames'[t][k].signal = frames[t][k].signal /\ frames[t][k].signal # s
          BY <1>3, <2>3
        <4>2. frames'[t][CM!Depth(t) + 1].signal = s
          BY <2>1, <2>3
        <4>3. CASE i \in 1 .. CM!Depth(t) /\ j \in 1 .. CM!Depth(t)
          BY <3>2, <4>1, <4>3 DEF MonitorInv, CM!NotEnteredTwice
        <4> QED
          BY <2>5, <3>2, <4>1, <4>2, <4>3
      <3> QED
        BY <3>1, <3>2
    <2> QED
      BY <2>8, <2>9, <2>10, <2>11, <2>12, <2>13 DEF MonitorInv
  <1> QED
    BY <1>2, <1>3

-------------------------------------------------------------------------------
LEMMA MonitorInitInv ==
  ASSUME CM!Init
  PROVE  MonitorInv
  <1>1. \A t \in Threads : frames[t] = <<>> /\ CM!Depth(t) = 0
    BY DEF CM!Init, CM!Depth
  <1>2. <<>> \in Seq(Handlers)
    OBVIOUS
  <1>3. MonitorShape
    BY <1>2 DEF CM!Init, MonitorShape, CM!Exceptions
  <1>4. (\A t \in Threads : Reported(t)) /\ Disarmed /\ CM!LeavesLog
    BY <1>1 DEF Reported, Disarmed, CM!LeavesLog, CM!Init
  <1>5. OwnBlocked /\ CM!NotEnteredTwice
    BY <1>1 DEF OwnBlocked, CM!NotEnteredTwice
  <1> QED
    BY <1>3, <1>4, <1>5 DEF MonitorInv

\* A signal is one of those that are blocked once it is handled.
LEMMA NewSignal ==
  ASSUME MonitorInv, NEW t \in Threads, NEW s \in Signals, s \notin blocked[t]
  PROVE  \A i \in 1 .. CM!Depth(t) : frames[t][i].signal # s
  BY DEF MonitorInv, OwnBlocked

LEMMA CatchingStep ==
  ASSUME MonitorShape, NEW t \in Threads, CM!Catching(t)
  PROVE  /\ catching' \in [Threads -> CM!Exceptions]
         /\ \A u \in Threads \ {t} : catching'[u] = catching[u]
         /\ frames[t] # <<>> => catching'[t] = catching[t]
  BY DEF MonitorShape, CM!Catching

\* Nobody's log is lost by a step that leaves the log alone.
LEMMA StillLogged ==
  ASSUME Logged, UNCHANGED log, spoilt => spoilt',
         \A t \in Threads : CM!Writes(t) => CM!Writes(t)' \/ spoilt'
  PROVE  Logged'
  BY DEF Logged

\* A handler that is not writing goes on, and does not begin to.
LEMMA StillWriting ==
  ASSUME MonitorShape, NEW t \in Threads, frames[t] # <<>>, CM!Top(t).at # "Put",
         NEW step \in CM!Steps, CM!Go(t, step), NEW u \in Threads, CM!Writes(u)
  PROVE  CM!Writes(u)'
  <1>1. /\ \A v \in Threads \ {t} : frames'[v] = frames[v]
        /\ CM!Depth(t)' = CM!Depth(t)
        /\ \A i \in 1 .. CM!Depth(t) - 1 : frames'[t][i] = frames[t][i]
    BY GoStep
  <1>2. PICK i \in 1 .. CM!Depth(u) : frames[u][i].at = "Put"
    BY DEF CM!Writes
  <1>3. CASE u # t
    BY <1>1, <1>2, <1>3 DEF CM!Writes, CM!Depth
  <1>4. CASE u = t
    <2>1. CM!Depth(t) \in Nat /\ i # CM!Depth(t)
      BY <1>2, <1>4, StackOf DEF CM!Top
    <2>2. i \in 1 .. CM!Depth(t) - 1
      BY <1>2, <1>4, <2>1
    <2>3. frames'[u][i] = frames[u][i] /\ i \in (1 .. CM!Depth(u))'
      BY <1>1, <1>2, <1>4, <2>2
    <2> QED
      BY <1>2, <2>3 DEF CM!Writes
  <1> QED
    BY <1>3, <1>4

LEMMA MonitorStepInv ==
  ASSUME CM!SignalAssumption, MonitorInv, [CM!Next]_(CM!vars)
  PROVE  MonitorInv'
  <1>s. MonitorShape
    BY DEF MonitorInv
  <1>a. "ABRT" \in Signals /\ Faults \subseteq Signals /\ "Enter" \in CM!Places
    BY DEF CM!SignalAssumption, CM!Places
  <1>1. ASSUME NEW t \in Threads, NEW s \in Signals, CM!Arrive(t, s)
        PROVE  MonitorInv'
    <2>1. PICK place \in CM!Places : CM!Handle(t, s, place, "killed")
      BY <1>1 DEF CM!Arrive
    <2>2. fate = "running" /\ UNCHANGED <<log, spoilt, rearmed>> /\ CM!Catching(t)
      BY <1>1 DEF CM!Arrive, CM!Runs
    <2>3. \A i \in 1 .. CM!Depth(t) : frames[t][i].signal # s
      BY <1>1, NewSignal DEF CM!Arrive
    <2>4. /\ catching' \in [Threads -> CM!Exceptions]
          /\ \A u \in Threads \ {t} : catching'[u] = catching[u]
          /\ frames[t] # <<>> => catching'[t] \in {catching[t], "runtime"}
      BY <1>s, <2>2, CatchingStep
    <2> QED
      BY <2>1, <2>2, <2>3, <2>4, HandleInv
  <1>2. ASSUME NEW t \in Threads, NEW s \in Signals, CM!Fault(t, s)
        PROVE  MonitorInv'
    <2>2. fate = "running" /\ UNCHANGED <<log, spoilt, rearmed>> /\ CM!Catching(t)
      BY <1>2 DEF CM!Fault, CM!Runs
    <2>4. /\ catching' \in [Threads -> CM!Exceptions]
          /\ \A u \in Threads \ {t} : catching'[u] = catching[u]
          /\ frames[t] # <<>> => catching'[t] \in {catching[t], "runtime"}
      BY <1>s, <2>2, CatchingStep
    <2>5. CASE s \notin blocked[t]
      <3>1. PICK place \in CM!Places : CM!Handle(t, s, place, "killed")
        BY <1>2, <2>5 DEF CM!Fault
      <3>2. \A i \in 1 .. CM!Depth(t) : frames[t][i].signal # s
        BY <2>5, NewSignal
      <3> QED
        BY <2>2, <2>4, <3>1, <3>2, HandleInv
    <2>6. CASE s \in blocked[t]
      <3>1. fate' = "killed" /\ UNCHANGED <<handled, frames, blocked>>
        BY <1>2, <2>6 DEF CM!Fault
      <3>2. \A u \in Threads : CM!Depth(u)' = CM!Depth(u) /\ CM!Top(u)' = CM!Top(u) /\ (CM!Writes(u) <=> CM!Writes(u)')
        BY <3>1 DEF CM!Depth, CM!Top, CM!Writes
      <3>3. Logged <=> Logged'
        BY <2>2, <3>2 DEF Logged
      <3>4. ASSUME NEW u \in Threads
            PROVE  Reported(u)'
        <4>1. Reported(u)
          BY DEF MonitorInv
        <4>2. frames[u] # <<>> => catching'[u] = catching[u] \/ catching'[u] = "runtime"
          BY <2>4
        <4> QED
          BY <3>1, <3>2, <3>3, <4>1, <4>2 DEF Reported
      <3>5. MonitorShape' /\ Disarmed' /\ OwnBlocked' /\ CM!NotEnteredTwice'
        BY <1>s, <2>2, <2>4, <3>1, <3>2 DEF MonitorInv, MonitorShape, Disarmed, OwnBlocked, CM!NotEnteredTwice
      <3>6. CM!LeavesLog'
        BY <3>1 DEF CM!LeavesLog
      <3> QED
        BY <3>4, <3>5, <3>6 DEF MonitorInv
    <2> QED
      BY <2>5, <2>6
  <1>3. ASSUME NEW t \in Threads, CM!Terminate(t)
        PROVE  MonitorInv'
    <2>1. CM!Handle(t, "ABRT", "Enter", "killed") /\ fate = "running" /\ frames[t] = <<>>
          /\ UNCHANGED <<log, spoilt, rearmed>> /\ CM!Catching(t)
      BY <1>3 DEF CM!Terminate, CM!AppRuns
    <2>2. /\ catching' \in [Threads -> CM!Exceptions]
          /\ \A u \in Threads \ {t} : catching'[u] = catching[u]
      BY <1>s, <2>1, CatchingStep
    <2>3. CM!Depth(t) = 0
      BY <2>1 DEF CM!Depth
    <2>4. \A i \in 1 .. CM!Depth(t) : frames[t][i].signal # "ABRT"
      BY <2>3
    <2> QED
      BY <1>a, <2>1, <2>2, <2>4, HandleInv
  <1>4. ASSUME NEW t \in Threads, NEW b \in BOOLEAN, CM!Activate(t, b)
        PROVE  MonitorInv'
    <2>1. /\ ~rearmed /\ handled' = IF b THEN Signals ELSE {}
          /\ rearmed' = (rearmed \/ (b /\ \E u \in Threads : frames[u] # <<>>))
          /\ UNCHANGED <<frames, blocked, catching, log, fate, spoilt>>
      BY <1>4 DEF CM!Activate
    <2>2. \A u \in Threads : CM!Depth(u)' = CM!Depth(u) /\ CM!Top(u)' = CM!Top(u) /\ (CM!Writes(u) <=> CM!Writes(u)')
      BY <2>1 DEF CM!Depth, CM!Top, CM!Writes
    <2>3. (\A u \in Threads : Reported(u)') /\ OwnBlocked' /\ CM!NotEnteredTwice' /\ CM!LeavesLog'
      BY <2>1, <2>2 DEF MonitorInv, Reported, Logged, OwnBlocked, CM!NotEnteredTwice, CM!LeavesLog
    <2>4. Disarmed'
      BY <2>1 DEF Disarmed
    <2>5. MonitorShape'
      BY <1>s, <2>1 DEF MonitorShape
    <2> QED
      BY <2>3, <2>4, <2>5 DEF MonitorInv
  <1>5. ASSUME NEW t \in Threads, CM!SetSavePath(t)
        PROVE  MonitorInv'
    BY <1>5 DEF CM!SetSavePath, MonitorInv, MonitorShape, Reported, Logged, Disarmed, OwnBlocked,
                CM!NotEnteredTwice, CM!LeavesLog, CM!Writes, CM!Depth, CM!Top
  <1>b. ASSUME NEW t \in Threads, NEW step, CM!At(t, step)
        PROVE  /\ fate = "running" /\ frames[t] # <<>> /\ CM!Top(t).at = step /\ Reported(t)
               /\ step # "Enter" => rearmed \/ "ABRT" \notin handled
    BY <1>b DEF CM!At, MonitorInv, Disarmed
  <1>6. ASSUME NEW t \in Threads, CM!Enter(t)
        PROVE  MonitorInv'
    <2>1. CM!At(t, "Enter") /\ handled' = handled \ {"ABRT"} /\ CM!Go(t, "Rethrow")
          /\ UNCHANGED <<blocked, catching, fate, rearmed, log, spoilt>>
      BY <1>6 DEF CM!Enter
    <2>2. fate = "running" /\ frames[t] # <<>> /\ CM!Top(t).at = "Enter"
      BY <2>1, <1>b
    <2>3. Logged => Logged'
      BY <1>s, <2>1, <2>2, StillWriting, StillLogged DEF CM!Steps
    <2> QED
      BY <1>s, <2>1, <2>2, <2>3, GoInv DEF MonitorShape, CM!Steps
  <1>7. ASSUME NEW t \in Threads, CM!Rethrow(t)
        PROVE  MonitorInv'
    <2>1. PICK step \in {"Tell", "Write"} :
            CM!Go(t, step) /\ (step = "Tell" => catching[t] = "runtime")
      BY <1>7 DEF CM!Rethrow
    <2>2. CM!At(t, "Rethrow") /\ UNCHANGED <<handled, blocked, catching, fate, rearmed, log, spoilt>>
      BY <1>7 DEF CM!Rethrow
    <2>3. fate = "running" /\ frames[t] # <<>> /\ CM!Top(t).at = "Rethrow" /\ (rearmed \/ "ABRT" \notin handled)
      BY <2>2, <1>b
    <2>4. Logged => Logged'
      BY <1>s, <2>1, <2>2, <2>3, StillWriting, StillLogged DEF CM!Steps
    <2> QED
      BY <1>s, <2>1, <2>2, <2>3, <2>4, GoInv DEF MonitorShape, CM!Steps
  <1>8. ASSUME NEW t \in Threads, CM!Write(t)
        PROVE  MonitorInv'
    <2>1. CM!At(t, "Write") /\ log' = "cut" /\ CM!Go(t, "Put")
          /\ UNCHANGED <<handled, blocked, catching, fate, rearmed, spoilt>>
      BY <1>8 DEF CM!Write
    <2>2. fate = "running" /\ frames[t] # <<>> /\ (rearmed \/ "ABRT" \notin handled)
      BY <2>1, <1>b
    <2>3. CM!Writes(t)'
      <3>1. frames'[t] # <<>> /\ CM!Top(t)'.at = "Put" /\ CM!Depth(t)' = CM!Depth(t)
        BY <1>s, <2>1, <2>2, GoStep DEF CM!Steps
      <3>2. CM!Depth(t) \in 1 .. CM!Depth(t)
        BY <1>s, <2>2, StackOf
      <3> QED
        BY <3>1, <3>2 DEF CM!Writes, CM!Top
    <2>4. Logged'
      BY <2>1, <2>3 DEF Logged
    <2> QED
      BY <1>s, <2>1, <2>2, <2>4, GoInv DEF MonitorShape, CM!Steps
  <1>9. ASSUME NEW t \in Threads, CM!Put(t)
        PROVE  MonitorInv'
    <2>1. CM!At(t, "Put") /\ CM!Go(t, "Dialogue")
          /\ UNCHANGED <<handled, blocked, catching, fate, rearmed>>
      BY <1>9 DEF CM!Put
    <2>2. fate = "running" /\ frames[t] # <<>> /\ (rearmed \/ "ABRT" \notin handled)
      BY <2>1, <1>b
    <2>3. CM!Top(t).signal \in Signals
      BY <1>s, <2>2, StackOf DEF Handlers
    <2>4. /\ log' \in Signals \cup {"cut"} /\ spoilt' \in BOOLEAN
          /\ log' = "cut" => spoilt' \/ "cut" \in Signals
      BY <1>s, <1>9, <2>3 DEF CM!Put, MonitorShape
    <2>5. Logged'
      BY <2>4 DEF Logged
    <2> QED
      BY <2>1, <2>2, <2>4, <2>5, GoInv DEF CM!Steps
  <1>10. ASSUME NEW t \in Threads, CM!Shown(t)
         PROVE  MonitorInv'
    <2>1. (CM!At(t, "Tell") \/ CM!At(t, "Dialogue")) /\ CM!Go(t, "Abort")
          /\ UNCHANGED <<handled, blocked, catching, fate, rearmed, log, spoilt>>
      BY <1>10 DEF CM!Shown
    <2>2. fate = "running" /\ frames[t] # <<>> /\ CM!Top(t).at \in {"Tell", "Dialogue"} /\ Reported(t)
          /\ (rearmed \/ "ABRT" \notin handled)
      BY <2>1, <1>b
    <2>3. Logged => Logged'
      BY <1>s, <2>1, <2>2, StillWriting, StillLogged DEF CM!Steps
    <2>4. Logged' \/ catching[t] = "runtime"
      BY <2>2, <2>3 DEF Reported
    <2> QED
      BY <1>s, <2>1, <2>2, <2>3, <2>4, GoInv DEF MonitorShape, CM!Steps
  <1>11. ASSUME NEW t \in Threads, CM!Abort(t)
         PROVE  MonitorInv'
    <2>1. CM!At(t, "Abort") /\ CM!Handle(t, "ABRT", "Enter", "aborted")
          /\ UNCHANGED <<catching, log, spoilt, rearmed>>
      BY <1>11 DEF CM!Abort
    <2>2. fate = "running" /\ (rearmed \/ "ABRT" \notin handled)
      BY <2>1, <1>b
    <2>3. catching' \in [Threads -> CM!Exceptions]
      BY <1>s, <2>1 DEF MonitorShape
    <2> QED
      BY <1>a, <2>1, <2>2, <2>3, HandleInv
  <1>12. ASSUME NEW t \in Threads, CM!Escape(t)
         PROVE  MonitorInv'
    <2>1. fate = "running" /\ frames[t] # <<>> /\ (rearmed \/ "ABRT" \notin handled)
          /\ UNCHANGED <<log, rearmed>>
      BY <1>12, <1>b DEF CM!Escape
    <2>2. CASE /\ catching' = [catching EXCEPT ![t] = "runtime"]
               /\ CM!Handle(t, "ABRT", "Enter", "terminated")
               /\ UNCHANGED spoilt
      <3>1. /\ catching' \in [Threads -> CM!Exceptions]
            /\ \A u \in Threads \ {t} : catching'[u] = catching[u]
            /\ catching'[t] = "runtime"
        BY <1>s, <2>2 DEF MonitorShape, CM!Exceptions
      <3> QED
        BY <1>a, <2>1, <2>2, <3>1, HandleInv
    <2>3. CASE /\ catching' = [catching EXCEPT ![t] = "none"]
               /\ frames' = [frames EXCEPT ![t] = <<>>]
               /\ spoilt' = (spoilt \/ CM!Writes(t))
               /\ UNCHANGED <<handled, blocked, fate>>
      <3>1. frames'[t] = <<>> /\ CM!Depth(t)' = 0
        BY <1>s, <2>3 DEF MonitorShape, CM!Depth
      <3>2. \A u \in Threads \ {t} : /\ frames'[u] = frames[u] /\ CM!Depth(u)' = CM!Depth(u)
                                      /\ CM!Top(u)' = CM!Top(u) /\ catching'[u] = catching[u]
        BY <1>s, <2>3 DEF MonitorShape, CM!Depth, CM!Top
      <3>3. MonitorShape'
        BY <1>s, <2>1, <2>3 DEF MonitorShape, CM!Exceptions
      <3>4. Logged => Logged'
        <4>1. \A u \in Threads : CM!Writes(u) => CM!Writes(u)' \/ spoilt'
          BY <2>3, <3>2 DEF CM!Writes
        <4>2. spoilt => spoilt'
          BY <2>3
        <4> QED
          BY <2>1, <4>1, <4>2, StillLogged
      <3>5. ASSUME NEW u \in Threads
            PROVE  Reported(u)'
        <4>1. Reported(u)
          BY DEF MonitorInv
        <4> QED
          BY <3>1, <3>2, <3>4, <4>1 DEF Reported
      <3>6. Disarmed'
        BY <2>1, <2>3, <3>1, <3>2 DEF MonitorInv, Disarmed
      <3>7. OwnBlocked' /\ CM!NotEnteredTwice'
        BY <2>1, <2>3, <3>1, <3>2 DEF MonitorInv, OwnBlocked, CM!NotEnteredTwice
      <3>8. CM!LeavesLog'
        BY <2>1, <2>3 DEF CM!LeavesLog
      <3> QED
        BY <3>3, <3>5, <3>6, <3>7, <3>8 DEF MonitorInv
    <2> QED
      BY <1>12, <2>2, <2>3 DEF CM!Escape
  <1>13. CASE UNCHANGED CM!vars
    BY <1>13 DEF CM!vars, MonitorInv, MonitorShape, Reported, Logged, Disarmed, OwnBlocked,
                 CM!NotEnteredTwice, CM!LeavesLog, CM!Writes, CM!Depth, CM!Top
  <1> QED
    BY <1>1, <1>2, <1>3, <1>4, <1>5, <1>6, <1>7, <1>8, <1>9, <1>10, <1>11, <1>12, <1>13 DEF CM!Next

\* What the invariant says of the handlers on top is what is promised.
LEMMA ReportedWhole ==
  ASSUME CM!SignalAssumption, MonitorInv
  PROVE  CM!CrashIsReported
  <1>1. CM!LogBeforeDialogue
    <2> SUFFICES ASSUME NEW t \in Threads, CM!At(t, "Dialogue")
                 PROVE  log # "none" /\ (log = "cut" => spoilt \/ \E u \in Threads : CM!Writes(u))
      BY DEF CM!LogBeforeDialogue
    <2>1. Logged
      BY DEF MonitorInv, Reported, CM!At
    <2> QED
      BY <2>1 DEF Logged, CM!SignalAssumption
  <1> QED
    BY <1>1 DEF MonitorInv, CM!CrashIsReported

LEMMA MonitorAlone == PartsSpec => CM!Spec
  <1>1. PartsInit => CM!Init
    BY DEF PartsInit
  <1>2. [PartsNext]_partsVars => [CM!Next]_(CM!vars)
    BY DEF PartsNext, partsVars, monitorVars, CM!vars
  <1> QED
    BY <1>1, <1>2, PTL DEF PartsSpec, CM!Spec

LEMMA MonitorInvariant == CM!Spec => []MonitorInv
  BY SignalAssumption, MonitorInitInv, MonitorStepInv, PTL DEF CM!Spec

\* Who tells the user of a crash has written its log, a process that its handler has
\* aborted leaves one, and no handler is entered twice for one signal, whatever the
\* threads and the signals and however the handlers interrupt each other
\* (monitor.cpp:18-181).
THEOREM CrashIsReportedCorrect == PartsSpec => []CrashIsReported
  <1>1. MonitorInv => CrashIsReported
    BY SignalAssumption, ReportedWhole DEF CrashIsReported
  <1> QED
    BY <1>1, MonitorAlone, MonitorInvariant, PTL

===============================================================================
