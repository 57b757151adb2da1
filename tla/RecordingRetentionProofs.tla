------------------------ MODULE RecordingRetentionProofs ------------------------
(***************************************************************************)
(* Theorems about RecordingRetention, for any files, sizes, limits, clock  *)
(* steps and number of removals: a recording is only removed when it must  *)
(* be.                                                                     *)
(*                                                                         *)
(* That a negative limit removes nothing needs a bound on the sum of all   *)
(* sizes, an induction over the files.  It is made with sets of natural    *)
(* numbers: a set that has 0 and the successors of its members has them    *)
(* all.  The same induction shows that the recursion which adds up the     *)
(* sizes defines a function.                                               *)
(***************************************************************************)
EXTENDS RecordingRetention, FiniteSetTheorems, WellFoundedInduction, TLAPS

-------------------------------------------------------------------------------
(* Sums of sizes.                                                          *)

\* Induction over the natural numbers, for a set of them.
LEMMA NatSet ==
    ASSUME NEW T, 0 \in T, \A n \in Nat : n \in T => n + 1 \in T
    PROVE  \A n \in Nat : n \in T
  <1> DEFINE missing == Nat \ T
  <1>1. SUFFICES ASSUME missing # {} PROVE FALSE
    OBVIOUS
  <1>2. PICK n \in missing : \A m \in missing : ~(<<m, n>> \in OpToRel(<, Nat))
    <2>1. missing \subseteq Nat /\ missing # {}
      BY <1>1
    <2> HIDE DEF missing
    <2> QED BY <2>1, NatLessThanWellFounded, WFMin
  <1>3. \A m \in missing : ~(m < n)
    BY <1>2 DEF OpToRel
  <1>4. n # 0 /\ n \in Nat
    OBVIOUS
  <1>5. n - 1 \in Nat /\ n - 1 \in T
    BY <1>3, <1>4
  <1> QED BY <1>4, <1>5

SumOver(files, S) == MapThenSumSet(LAMBDA p : files[p].size, S)

AnyOf(s) == CHOOSE x \in s : TRUE

Turn(files, g, s) ==
    IF s = {} THEN 0 ELSE files[AnyOf(s)].size + g[s \ {AnyOf(s)}]

LEMMA SumDef == ASSUME NEW files, NEW S PROVE
    SumOver(files, S) = (CHOOSE g : g = [s \in SUBSET S |-> Turn(files, g, s)])[S]
  BY DEF SumOver, MapThenSumSet, MapThenFoldSet, Turn, AnyOf

LEMMA Parts ==
    ASSUME NEW S, IsFiniteSet(S), NEW s \in SUBSET S
    PROVE  /\ Cardinality(s) \in Nat /\ Cardinality(s) <= Cardinality(S)
           /\ Cardinality(s) = 0 => s = {}
           /\ s # {} => /\ AnyOf(s) \in s /\ s \ {AnyOf(s)} \in SUBSET S
                       /\ Cardinality(s \ {AnyOf(s)}) = Cardinality(s) - 1
  <1>1. IsFiniteSet(s) /\ Cardinality(s) <= Cardinality(S)
    BY FS_Subset
  <1>2. Cardinality(s) \in Nat
    BY <1>1, FS_CardinalityType
  <1>3. Cardinality(s) = 0 => s = {}
    BY <1>1, FS_EmptySet
  <1>4. s # {} => AnyOf(s) \in s
    BY DEF AnyOf
  <1>5. s # {} => Cardinality(s \ {AnyOf(s)}) = Cardinality(s) - 1
    BY <1>1, <1>4, FS_RemoveElement
  <1> QED BY <1>1, <1>2, <1>3, <1>4, <1>5

\* The recursion of MapThenSumSet defines a function.
LEMMA SumExists ==
    ASSUME NEW files, NEW S, IsFiniteSet(S)
    PROVE  \E g : g = [s \in SUBSET S |-> Turn(files, g, s)]
  <1> DEFINE Small(n) == {s \in SUBSET S : Cardinality(s) <= n}
             Right(g, n) == g = [s \in SUBSET S |-> g[s]] /\ \A s \in Small(n) : g[s] = Turn(files, g, s)
             T == {n \in Nat : \E g : Right(g, n)}
  <1>0. \A s \in SUBSET S : Cardinality(s) \in Nat /\ (Cardinality(s) = 0 => s = {})
    BY Parts
  <1>1. 0 \in T
    <2> DEFINE g == [s \in SUBSET S |-> 0]
    <2>1. \A s \in Small(0) : s = {}
      BY <1>0
    <2>2. Right(g, 0)
      BY <2>1 DEF Turn
    <2> QED BY <2>2
  <1>2. ASSUME NEW n \in Nat, n \in T PROVE n + 1 \in T
    <2>1. PICK g : Right(g, n)
      BY <1>2
    <2> DEFINE h == [s \in SUBSET S |-> IF s \in Small(n) THEN g[s] ELSE Turn(files, g, s)]
    <2>2. h = [s \in SUBSET S |-> h[s]]
      OBVIOUS
    <2>3. \A s \in SUBSET S : h[s] = IF s \in Small(n) THEN g[s] ELSE Turn(files, g, s)
      OBVIOUS
    <2>4. \A s \in Small(n) : g[s] = Turn(files, g, s)
      BY <2>1
    <2>5. \A s \in SUBSET S : h[s] = Turn(files, g, s)
      BY <2>3, <2>4
    <2> HIDE DEF h
    <2>6. ASSUME NEW s \in Small(n + 1) PROVE h[s] = Turn(files, h, s)
      <3>1. CASE s = {}
        BY <2>5, <3>1 DEF Turn
      <3>2. CASE s # {}
        <4>1. s \ {AnyOf(s)} \in Small(n)
          BY <3>2, <2>6, Parts
        <4>2. h[s \ {AnyOf(s)}] = g[s \ {AnyOf(s)}]
          BY <2>3, <4>1
        <4> QED BY <2>5, <3>2, <4>2 DEF Turn
      <3> QED BY <3>1, <3>2
    <2>7. Right(h, n + 1)
      BY <2>2, <2>6
    <2> HIDE DEF Right
    <2> QED BY <2>7
  <1> HIDE DEF T
  <1>3. Cardinality(S) \in T
    BY <1>1, <1>2, NatSet, FS_CardinalityType
  <1>4. PICK g : Right(g, Cardinality(S))
    BY <1>3 DEF T
  <1>5. \A s \in SUBSET S : s \in Small(Cardinality(S))
    BY Parts
  <1>6. g = [s \in SUBSET S |-> Turn(files, g, s)]
    BY <1>4, <1>5
  <1> QED BY <1>6

SameSizes(files, others, S) == \A p \in S : files[p].size = others[p].size

AddsUp(files, g, S) == \A s \in SUBSET S : g[s] = Turn(files, g, s)

\* Two sums that add up the same sizes are equal, whatever else they are of.
LEMMA SumsAgree ==
    ASSUME NEW files, NEW others, NEW S, IsFiniteSet(S), NEW U \in SUBSET S, SameSizes(files, others, U),
           NEW g, AddsUp(files, g, S), NEW h, AddsUp(others, h, U)
    PROVE  g[U] = h[U]
  <1> DEFINE T == {n \in Nat : \A s \in SUBSET U : Cardinality(s) = n => g[s] = h[s]}
  <1>1. IsFiniteSet(U) /\ SUBSET U \subseteq SUBSET S
    BY FS_Subset
  <1>2. \A s \in SUBSET U : g[s] = Turn(files, g, s) /\ h[s] = Turn(others, h, s)
    BY <1>1 DEF AddsUp
  <1>3. 0 \in T
    <2> SUFFICES ASSUME NEW s \in SUBSET U, Cardinality(s) = 0 PROVE g[s] = h[s]
      OBVIOUS
    <2>1. s = {}
      BY <1>1, Parts
    <2> QED BY <1>2, <2>1 DEF Turn
  <1>4. ASSUME NEW n \in Nat, n \in T PROVE n + 1 \in T
    <2> SUFFICES ASSUME NEW s \in SUBSET U, Cardinality(s) = n + 1 PROVE g[s] = h[s]
      OBVIOUS
    <2>1. CASE s = {}
      BY <1>2, <2>1 DEF Turn
    <2>2. CASE s # {}
      <3> DEFINE r == s \ {AnyOf(s)}
      <3>1. AnyOf(s) \in U /\ r \in SUBSET U /\ Cardinality(r) = n
        BY <1>1, <2>2, Parts
      <3>2. g[r] = h[r]
        BY <1>4, <3>1
      <3>3. g[s] = files[AnyOf(s)].size + g[r] /\ h[s] = others[AnyOf(s)].size + h[r]
        BY <1>2, <2>2 DEF Turn
      <3> QED BY <3>1, <3>2, <3>3 DEF SameSizes
    <2> QED BY <2>1, <2>2
  <1> HIDE DEF T
  <1>5. Cardinality(U) \in T
    BY <1>1, <1>3, <1>4, NatSet, FS_CardinalityType
  <1> QED BY <1>5 DEF T

LEMMA SumSame ==
    ASSUME NEW files, NEW others, NEW S, IsFiniteSet(S),
           SameSizes(files, others, S)
    PROVE  SumOver(files, S) = SumOver(others, S)
  <1> DEFINE g == CHOOSE g : g = [s \in SUBSET S |-> Turn(files, g, s)]
             h == CHOOSE h : h = [s \in SUBSET S |-> Turn(others, h, s)]
  <1>1. SumOver(files, S) = g[S] /\ SumOver(others, S) = h[S]
    BY SumDef
  <1>2. g = [s \in SUBSET S |-> Turn(files, g, s)] /\ h = [s \in SUBSET S |-> Turn(others, h, s)]
    BY SumExists
  <1> HIDE DEF g, h
  <1>3. AddsUp(files, g, S) /\ AddsUp(others, h, S)
    BY <1>2 DEF AddsUp
  <1>4. g[S] = h[S]
    BY <1>3, SumsAgree
  <1> QED BY <1>1, <1>4

LEMMA SumTurn ==
    ASSUME NEW files, NEW S, IsFiniteSet(S)
    PROVE  /\ S = {} => SumOver(files, S) = 0
           /\ S # {} => /\ AnyOf(S) \in S
                       /\ SumOver(files, S) = files[AnyOf(S)].size + SumOver(files, S \ {AnyOf(S)})
  <1> DEFINE R == S \ {AnyOf(S)}
             g == CHOOSE g : g = [s \in SUBSET S |-> Turn(files, g, s)]
             h == CHOOSE h : h = [s \in SUBSET R |-> Turn(files, h, s)]
  <1>1. IsFiniteSet(R) /\ R \subseteq S
    BY FS_Subset
  <1>2. SumOver(files, S) = g[S] /\ SumOver(files, R) = h[R]
    BY SumDef
  <1>3. g = [s \in SUBSET S |-> Turn(files, g, s)]
    BY SumExists
  <1>4. h = [s \in SUBSET R |-> Turn(files, h, s)]
    BY <1>1, SumExists
  <1> HIDE DEF g, h
  <1>5. AddsUp(files, g, S) /\ AddsUp(files, h, R)
    BY <1>3, <1>4 DEF AddsUp
  <1> HIDE DEF R
  <1>6. g[R] = h[R]
    <2>1. R \in SUBSET S /\ SameSizes(files, files, R)
      BY <1>1 DEF SameSizes
    <2> QED BY <1>5, <2>1, SumsAgree
  <1> USE DEF R
  <1>7. g[S] = Turn(files, g, S)
    BY <1>3
  <1> QED BY <1>2, <1>6, <1>7, Parts DEF Turn

\* A sum of sizes is a natural number, and any file may be taken out of it.
LEMMA SumNatural ==
    ASSUME NEW files, NEW U, IsFiniteSet(U), \A p \in U : files[p].size \in Nat
    PROVE  SumOver(files, U) \in Nat
  <1> DEFINE T == {n \in Nat : \A s \in SUBSET U : Cardinality(s) = n => SumOver(files, s) \in Nat}
  <1>1. \A s \in SUBSET U : IsFiniteSet(s)
    BY FS_Subset
  <1>2. 0 \in T
    <2> SUFFICES ASSUME NEW s \in SUBSET U, Cardinality(s) = 0 PROVE SumOver(files, s) \in Nat
      OBVIOUS
    <2>1. s = {} /\ IsFiniteSet({})
      BY <1>1, Parts
    <2>2. SumOver(files, {}) = 0
      BY <2>1, SumTurn
    <2> QED BY <2>1, <2>2
  <1>3. ASSUME NEW n \in Nat, n \in T PROVE n + 1 \in T
    <2> SUFFICES ASSUME NEW s \in SUBSET U, Cardinality(s) = n + 1 PROVE SumOver(files, s) \in Nat
      OBVIOUS
    <2>1. CASE s = {}
      <3>1. SumOver(files, {}) = 0
        BY <1>1, <2>1, SumTurn
      <3> QED BY <2>1, <3>1
    <2>2. CASE s # {}
      <3> DEFINE r == s \ {AnyOf(s)}
      <3>1. AnyOf(s) \in U /\ r \in SUBSET U /\ Cardinality(r) = n
        BY <2>2, Parts
      <3>2. SumOver(files, r) \in Nat
        BY <1>3, <3>1
      <3>3. SumOver(files, s) = files[AnyOf(s)].size + SumOver(files, r)
        BY <1>1, <2>2, SumTurn
      <3> HIDE DEF r
      <3> QED BY <3>1, <3>2, <3>3
    <2> QED BY <2>1, <2>2
  <1> HIDE DEF T
  <1>4. Cardinality(U) \in T
    BY <1>2, <1>3, NatSet, FS_CardinalityType
  <1> QED BY <1>4 DEF T

LEMMA SumSplit ==
    ASSUME NEW files, NEW U, IsFiniteSet(U), \A p \in U : files[p].size \in Nat, NEW x \in U
    PROVE  SumOver(files, U) = files[x].size + SumOver(files, U \ {x})
  <1> DEFINE T == {n \in Nat : \A s \in SUBSET U : Cardinality(s) = n =>
                     \A p \in s : SumOver(files, s) = files[p].size + SumOver(files, s \ {p})}
  <1>1. \A s \in SUBSET U : IsFiniteSet(s) /\ SumOver(files, s) \in Nat
    <2> SUFFICES ASSUME NEW s \in SUBSET U PROVE IsFiniteSet(s) /\ SumOver(files, s) \in Nat
      OBVIOUS
    <2>1. IsFiniteSet(s)
      BY FS_Subset
    <2> QED BY <2>1, SumNatural
  <1>2. 0 \in T
    <2> SUFFICES ASSUME NEW s \in SUBSET U, Cardinality(s) = 0, NEW p \in s PROVE FALSE
      OBVIOUS
    <2> QED BY Parts
  <1>3. ASSUME NEW n \in Nat, n \in T PROVE n + 1 \in T
    <2> SUFFICES ASSUME NEW s \in SUBSET U, Cardinality(s) = n + 1, NEW p \in s
                 PROVE  SumOver(files, s) = files[p].size + SumOver(files, s \ {p})
      OBVIOUS
    <2> DEFINE a == AnyOf(s)
               r == s \ {a}
    <2>1. /\ a \in s /\ SumOver(files, s) = files[a].size + SumOver(files, r)
          /\ r \in SUBSET U /\ Cardinality(r) = n
      BY <1>1, SumTurn, Parts
    <2>2. CASE p = a
      BY <2>1, <2>2
    <2>3. CASE p # a
      <3>1. /\ SumOver(files, r) = files[p].size + SumOver(files, r \ {p})
        BY <1>3, <2>1, <2>3
      <3>2. (s \ {p}) \ {a} = r \ {p} /\ s \ {p} \in SUBSET U /\ Cardinality(s \ {p}) = n
        <4>1. IsFiniteSet(s) /\ s \ {p} \in SUBSET U /\ (s \ {p}) \ {a} = r \ {p}
          BY <1>1
        <4>2. Cardinality(s \ {p}) = Cardinality(s) - 1
          BY <4>1, FS_RemoveElement
        <4> QED BY <4>1, <4>2
      <3>3. SumOver(files, s \ {p}) = files[a].size + SumOver(files, r \ {p})
        BY <1>3, <2>1, <2>3, <3>2
      <3>4. files[a].size \in Nat /\ files[p].size \in Nat /\ SumOver(files, r \ {p}) \in Nat
        BY <1>1, <2>1
      <3> HIDE DEF a, r
      <3> QED BY <2>1, <3>1, <3>3, <3>4
    <2> QED BY <2>2, <2>3
  <1> HIDE DEF T
  <1>4. Cardinality(U) \in T
    BY <1>2, <1>3, NatSet, FS_CardinalityType
  <1> QED BY <1>4 DEF T

-------------------------------------------------------------------------------
(* The files of the directory.                                             *)

USE RetentionAssumption

Files(r) ==
    /\ DOMAIN r \subseteq Path /\ IsFiniteSet(DOMAIN r)
    /\ r \in [DOMAIN r -> File]

LEMMA TotalIsSum == \A r : TotalOf(r) = SumOver(r, DOMAIN r)
  BY DEF TotalOf, SumOver

LEMMA TotalNatural == ASSUME NEW r, Files(r) PROVE TotalOf(r) \in Nat
  <1>1. \A p \in DOMAIN r : r[p].size \in Nat
    BY DEF Files, File
  <1> QED BY <1>1, SumNatural, TotalIsSum DEF Files

\* A file is taken away.
LEMMA FilesWithout ==
    ASSUME Files(recordings), NEW p \in DOMAIN recordings
    PROVE  Files(Without(p)) /\ TotalOf(Without(p)) <= Total
  <1> DEFINE D == DOMAIN recordings
             w == Without(p)
  <1>1. DOMAIN w = D \ {p} /\ \A q \in D \ {p} : w[q] = recordings[q]
    BY DEF Without
  <1>2. IsFiniteSet(D) /\ IsFiniteSet(D \ {p}) /\ \A q \in D : recordings[q] \in File
    BY FS_RemoveElement DEF Files
  <1>3. Files(w)
    <2>1. w \in [D \ {p} -> File]
      BY <1>2 DEF Without
    <2> HIDE DEF w
    <2> QED BY <1>1, <1>2, <2>1 DEF Files
  <1> HIDE DEF w
  <1>4. SumOver(w, D \ {p}) = SumOver(recordings, D \ {p})
    BY <1>1, <1>2, SumSame DEF SameSizes
  <1>5. \A q \in D : recordings[q].size \in Nat
    BY <1>2 DEF File
  <1>6. SumOver(recordings, D) = recordings[p].size + SumOver(recordings, D \ {p})
    BY <1>2, <1>5, SumSplit
  <1>7. SumOver(recordings, D \ {p}) \in Nat
    BY <1>2, <1>5, SumNatural
  <1>8. TotalOf(w) = SumOver(w, D \ {p}) /\ Total = SumOver(recordings, D)
    BY <1>1, TotalIsSum DEF Total
  <1> QED BY <1>3, <1>4, <1>5, <1>6, <1>7, <1>8 DEF w

\* A file is there with a new size, and the sizes of the others are the same.
LEMMA FilesWith ==
    ASSUME NEW r, Files(r), NEW loc \in Path, NEW w, NEW n \in Nat,
           w \in [DOMAIN r \cup {loc} -> File], w[loc].size = n,
           \A q \in DOMAIN r \ {loc} : w[q].size = r[q].size
    PROVE  /\ Files(w) /\ TotalOf(r) \in Nat
           /\ loc \in DOMAIN r => TotalOf(w) = TotalOf(r) - r[loc].size + n
           /\ loc \notin DOMAIN r => TotalOf(w) = TotalOf(r) + n
  <1> DEFINE D == DOMAIN r
             E == D \cup {loc}
             O == D \ {loc}
  <1>1. DOMAIN w = E /\ E \ {loc} = O /\ E \subseteq Path /\ loc \in E
    BY DEF Files
  <1>2. IsFiniteSet(D) /\ IsFiniteSet(E) /\ IsFiniteSet(O)
    BY FS_AddElement, FS_RemoveElement DEF Files
  <1>3. /\ \A q \in E : w[q].size \in Nat
        /\ \A q \in D : r[q].size \in Nat
    BY DEF Files, File
  <1>4. SumOver(w, E) = n + SumOver(w, O)
    BY <1>1, <1>2, <1>3, SumSplit
  <1>5. SumOver(w, O) = SumOver(r, O)
    BY <1>2, SumSame DEF SameSizes
  <1>6. SumOver(r, O) \in Nat
    BY <1>2, <1>3, SumNatural
  <1>7. TotalOf(w) = n + SumOver(r, O) /\ TotalOf(r) = SumOver(r, D)
    BY <1>1, <1>4, <1>5, TotalIsSum
  <1>8. CASE loc \in D
    <2>1. SumOver(r, D) = r[loc].size + SumOver(r, O)
      BY <1>2, <1>3, <1>8, SumSplit
    <2> QED BY <1>1, <1>2, <1>3, <1>6, <1>7, <1>8, <2>1 DEF Files
  <1>9. CASE loc \notin D
    <2>1. O = D
      BY <1>9
    <2> QED BY <1>1, <1>2, <1>6, <1>7, <1>9, <2>1 DEF Files
  <1> QED BY <1>8, <1>9

-------------------------------------------------------------------------------
(* The invariant.                                                          *)

\* While the loop runs, the sum in total_size is that of the files which are
\* there: nobody else writes to the directory then, and each removal adds up
\* anew.
SumIsFresh == thread \in {"enforcing", "removing"} => total_size = Total

\* The file that was picked is still the oldest one, and the limit in force
\* then required it to go.
PickStands ==
    thread = "removing" =>
        /\ oldest \in Oldest /\ oldest \in Path /\ oldest # location
        /\ limit >= 0 /\ Total >= limit
        /\ iteration < max_iterations

\* TypeOK, the path of the fragment to come, and what the disk can hold.
RetentionInv ==
    /\ TypeOK
    /\ Files(recordings)
    /\ thread \in {"enforcing", "removing"} => location \in Path
    /\ SumIsFresh /\ PickStands
    /\ Total <= DiskSize

LEMMA InitRetention == Init => RetentionInv
  <1> SUFFICES ASSUME Init PROVE RetentionInv
    OBVIOUS
  <1>1. DOMAIN recordings = {} /\ IsFiniteSet({}) /\ recordings \in [{} -> File]
    BY FS_EmptySet DEF Init
  <1>2. Files(recordings) /\ Total = 0
    BY <1>1, SumTurn, TotalIsSum DEF Files, Total
  <1>3. TypeOK
    <2>1. /\ given \in BOOLEAN /\ max_size \in LimitsRead(given) /\ thread = "starting"
          /\ location = NoPath /\ total_size = 0 /\ iteration = 0 /\ stepped = FALSE /\ crashes = 0
          /\ oldest = NoPath /\ limit = DefaultSize
      BY DEF Init
    <2>2. DOMAIN recordings \subseteq Path /\ recordings \in [DOMAIN recordings -> File]
      BY <1>2 DEF Files
    <2>3. 0 \in 0..max_iterations /\ 0 \in 0..MaxCrashes
      OBVIOUS
    <2>4. given \in BOOLEAN /\ max_size \in LimitsRead(given)
      BY <2>1
    <2>5. /\ thread \in {"starting", "enforcing", "removing", "recording"}
          /\ thread \notin {"recording", "removing"}
      BY <2>1
    <2> QED BY <2>1, <2>2, <2>3, <2>4, <2>5 DEF TypeOK
  <1> QED
    BY <1>2, <1>3 DEF Init, RetentionInv, SumIsFresh, PickStands

LEMMA FormatKeeps == RetentionInv /\ FormatLocation => RetentionInv'
  <1> SUFFICES ASSUME RetentionInv, FormatLocation PROVE RetentionInv'
    OBVIOUS
  <1> USE DEF RetentionInv, FormatLocation
  <1>1. location' \in Path
    <2>1. FreshPaths # {} => (CHOOSE p \in FreshPaths : TRUE) \in FreshPaths
      OBVIOUS
    <2> QED BY <2>1 DEF NewPaths, FreshPaths, TypeOK
  <1>2. total_size' \in Nat
    BY TotalNatural DEF Total
  <1>3. oldest' = NoPath /\ limit' = limit /\ thread' = "enforcing"
    BY DEF FragmentOver, TypeOK
  <1>4. TypeOK'
    BY <1>1, <1>2, <1>3 DEF TypeOK
  <1> QED
    BY <1>1, <1>2, <1>3, <1>4 DEF Total, SumIsFresh, PickStands

LEMMA LimitsReadAllowed == \A g \in BOOLEAN : LimitsRead(g) \subseteq MaxSizes
  BY DEF LimitsRead

\* A limit that is not negative is converted without change.
LEMMA LimitOfNatural == \A m \in MaxSizes : m >= 0 => LimitOf(m) = m
  BY DEF LimitOf

\* A negative limit becomes one that no disk reaches.
LEMMA LimitOfNegative == \A m \in MaxSizes : m < 0 => LimitOf(m) > DiskSize
  <1> SUFFICES ASSUME NEW m \in MaxSizes, m < 0 PROVE LimitOf(m) > DiskSize
    OBVIOUS
  <1>1. m + Width \in 0..Width - 1 /\ m + Width > DiskSize
    OBVIOUS
  <1>2. m % Width = m + Width
    BY <1>1
  <1> QED BY <1>1, <1>2 DEF LimitOf

\* What is picked has to go, by the limit that is looked at.
LEMMA PickKeeps == RetentionInv /\ GetOldestFile => RetentionInv'
  <1> SUFFICES ASSUME RetentionInv, GetOldestFile PROVE RetentionInv'
    OBVIOUS
  <1> USE DEF RetentionInv
  <1>1. /\ thread = "enforcing" /\ thread' = "removing" /\ OverLimit
        /\ oldest' \in Oldest \ {location} /\ limit' = max_size
        /\ UNCHANGED <<recordings, max_size, given, location, total_size, iteration, stepped, crashes>>
    BY DEF GetOldestFile
  <1>2. max_size \in MaxSizes
    BY LimitsReadAllowed DEF TypeOK
  <1>3. max_size >= 0 /\ Total >= max_size
    <2>1. total_size = Total /\ total_size >= LimitOf(max_size)
      BY <1>1 DEF OverLimit, SumIsFresh
    <2>2. Total \in Nat /\ Total <= DiskSize
      BY TotalNatural DEF Total
    <2>3. ~(max_size < 0)
      BY <1>2, <2>1, <2>2, LimitOfNegative DEF LimitOf
    <2> QED
      BY <1>2, <2>1, <2>3, LimitOfNatural
  <1>4. oldest' \in Path \ {NoPath} /\ oldest' \in DOMAIN recordings \ {location}
    BY <1>1 DEF Oldest, Files
  <1>5. TypeOK'
    BY <1>1, <1>2, <1>4 DEF TypeOK
  <1>6. PickStands'
    BY <1>1, <1>3, <1>4 DEF PickStands, OverLimit, Oldest, Total
  <1> QED
    BY <1>1, <1>5, <1>6 DEF SumIsFresh, Total

LEMMA RemovalKeeps == RetentionInv /\ RemoveOldest => RetentionInv'
  <1> SUFFICES ASSUME RetentionInv, RemoveOldest PROVE RetentionInv'
    OBVIOUS
  <1> USE DEF RetentionInv
  <1>1. /\ thread = "removing" /\ recordings' = Without(oldest) /\ total_size' = TotalOf(Without(oldest))
        /\ iteration' = iteration + 1 /\ thread' = "enforcing" /\ oldest' = NoPath
        /\ UNCHANGED <<max_size, given, location, limit, stepped, crashes>>
    BY DEF RemoveOldest
  <1>2. Files(recordings') /\ total_size' = TotalOf(recordings') /\ total_size' <= Total
    BY <1>1, FilesWithout DEF PickStands, Oldest
  <1>3. total_size' \in Nat /\ Total' = total_size' /\ Total \in Nat
    BY <1>2, TotalNatural DEF Total
  <1>4. iteration < max_iterations /\ location \in Path
    BY <1>1 DEF PickStands
  <1>5. TypeOK'
    BY <1>1, <1>2, <1>3, <1>4 DEF TypeOK, Files
  <1> QED
    BY <1>1, <1>2, <1>3, <1>4, <1>5 DEF SumIsFresh, PickStands

LEMMA OpeningKeeps == RetentionInv /\ OpenFragment => RetentionInv'
  <1> SUFFICES ASSUME RetentionInv, OpenFragment PROVE RetentionInv'
    OBVIOUS
  <1> USE DEF RetentionInv
  <1>1. /\ thread = "enforcing" /\ thread' = "recording"
        /\ recordings' = [p \in DOMAIN recordings \cup {location} |->
                            IF p = location THEN [size |-> 0, age |-> 0] ELSE recordings[p]]
        /\ UNCHANGED <<max_size, given, location, total_size, iteration, oldest, limit, stepped, crashes>>
    BY DEF OpenFragment
  <1>2. \A p \in DOMAIN recordings : recordings[p] \in File
    BY DEF Files
  <1>3. /\ recordings' \in [DOMAIN recordings \cup {location} -> File]
        /\ recordings'[location].size = 0 /\ location \in Path
        /\ \A q \in DOMAIN recordings \ {location} : recordings'[q].size = recordings[q].size
    BY <1>1, <1>2 DEF File
  <1>4. /\ Files(recordings') /\ Total \in Nat
        /\ location \in DOMAIN recordings => Total' = Total - recordings[location].size + 0
        /\ location \notin DOMAIN recordings => Total' = Total + 0
    BY <1>3, FilesWith DEF Total
  <1>5. Total' <= DiskSize
    <2>1. CASE location \in DOMAIN recordings
      <3>1. recordings[location].size \in Nat
        BY <1>2, <2>1 DEF File
      <3> QED BY <1>4, <2>1, <3>1
    <2>2. CASE location \notin DOMAIN recordings
      BY <1>4, <2>2
    <2> QED BY <2>1, <2>2
  <1>6. TypeOK'
    BY <1>1, <1>3, <1>4 DEF TypeOK, Files
  <1> QED
    BY <1>1, <1>4, <1>5, <1>6 DEF SumIsFresh, PickStands

LEMMA WritingKeeps == RetentionInv /\ WriteFragment => RetentionInv'
  <1> SUFFICES ASSUME RetentionInv, WriteFragment PROVE RetentionInv'
    OBVIOUS
  <1> USE DEF RetentionInv
  <1>1. /\ thread = "recording" /\ Total < DiskSize
        /\ recordings' = [p \in DOMAIN recordings |->
                            IF p = location
                            THEN [size |-> recordings[p].size + 1, age |-> 0]
                            ELSE [recordings[p] EXCEPT !.age = recordings[p].age + 1]]
        /\ UNCHANGED <<max_size, given, thread, location, total_size, iteration, oldest, limit,
                       stepped, crashes>>
    BY DEF WriteFragment
  <1>2. \A p \in DOMAIN recordings : recordings[p] \in File
    BY DEF Files
  <1>3. location \in DOMAIN recordings /\ location \in Path
    BY <1>1 DEF TypeOK
  <1>4. \A p \in DOMAIN recordings :
          /\ recordings'[p] \in File
          /\ recordings'[p].size = IF p = location THEN recordings[p].size + 1
                                                   ELSE recordings[p].size
    BY <1>1, <1>2 DEF File
  <1>5. recordings' \in [DOMAIN recordings \cup {location} -> File]
    BY <1>1, <1>3, <1>4
  <1>6. /\ Files(recordings') /\ Total \in Nat
        /\ Total' = Total - recordings[location].size + (recordings[location].size + 1)
    <2>1. recordings[location].size \in Nat
      BY <1>2, <1>3 DEF File
    <2> QED BY <1>3, <1>4, <1>5, <2>1, FilesWith DEF Total
  <1>7. Total' <= DiskSize
    <2>1. recordings[location].size \in Nat
      BY <1>2, <1>3 DEF File
    <2> QED BY <1>1, <1>6, <2>1
  <1>8. TypeOK'
    BY <1>1, <1>5, <1>6 DEF TypeOK, Files
  <1> QED
    BY <1>1, <1>6, <1>7, <1>8 DEF SumIsFresh, PickStands

LEMMA RestartKeeps == RetentionInv /\ CrashAndRestart => RetentionInv'
  <1> SUFFICES ASSUME RetentionInv, CrashAndRestart PROVE RetentionInv'
    OBVIOUS
  <1> USE DEF RetentionInv
  <1>1. PICK back \in ClockSteps \cup {0} :
          /\ stepped' = (stepped \/ back > 0)
          /\ recordings' = [p \in DOMAIN recordings |->
                              [recordings[p] EXCEPT !.age = recordings[p].age - back]]
    BY DEF CrashAndRestart
  <1>2. /\ thread' = "starting" /\ location' = NoPath /\ total_size' = 0 /\ iteration' = 0
        /\ crashes < MaxCrashes /\ crashes' = crashes + 1
        /\ given' \in BOOLEAN /\ max_size' \in LimitsRead(given')
        /\ oldest' = NoPath /\ limit' = DefaultSize
    BY DEF CrashAndRestart
  <1>3. \A p \in DOMAIN recordings : recordings[p] \in File
    BY DEF Files
  <1>4. back \in Nat
    OBVIOUS
  <1>5. \A p \in DOMAIN recordings :
          recordings'[p] \in File /\ recordings'[p].size = recordings[p].size
    BY <1>1, <1>3, <1>4 DEF File
  <1>6. DOMAIN recordings' = DOMAIN recordings /\ recordings' \in [DOMAIN recordings -> File]
    BY <1>1, <1>5
  <1>7. Files(recordings')
    BY <1>6 DEF Files
  <1>8. Total' = Total
    BY <1>5, <1>6, SumSame, TotalIsSum DEF Total, SameSizes, Files
  <1>9. TypeOK'
    BY <1>1, <1>2, <1>6 DEF TypeOK
  <1> QED
    BY <1>2, <1>7, <1>8, <1>9 DEF SumIsFresh, PickStands

LEMMA RetentionKept == RetentionInv /\ [Next]_vars => RetentionInv'
  <1> SUFFICES ASSUME RetentionInv, [Next]_vars PROVE RetentionInv'
    OBVIOUS
  <1>1. ASSUME NEW m \in MaxSizes, SetConfig(m) PROVE RetentionInv'
    BY <1>1 DEF SetConfig, RetentionInv, TypeOK, LimitsRead, SumIsFresh, PickStands, Oldest, Total
  <1>2. CASE UNCHANGED vars
    BY <1>2 DEF vars, RetentionInv, TypeOK, SumIsFresh, PickStands, Oldest, Total
  <1> QED
    BY <1>1, <1>2, FormatKeeps, PickKeeps, RemovalKeeps, OpeningKeeps, WritingKeeps, RestartKeeps
       DEF Next, Enforce

LEMMA RetentionStays == Spec => []RetentionInv
  BY InitRetention, RetentionKept, PTL DEF Spec

\* Every variable keeps its type: a fragment is written to a file that is
\* there, the sizes add up to a number, and the loop ends with max_iterations.
THEOREM RetentionTypeCorrect == Spec => []TypeOK
  BY RetentionStays, PTL DEF RetentionInv

-------------------------------------------------------------------------------
\* No step but one turn of the loop removes a file.
LEMMA OnlyTheLoopRemoves ==
    ASSUME [Next]_vars, ~RemoveOldest
    PROVE  Removed = {}
  <1>1. CASE FormatLocation
    BY <1>1 DEF FormatLocation, Removed
  <1>2. CASE OpenFragment \/ GetOldestFile
    BY <1>2 DEF OpenFragment, GetOldestFile, Removed
  <1>3. CASE WriteFragment
    BY <1>3 DEF WriteFragment, Removed
  <1>4. ASSUME NEW m \in MaxSizes, SetConfig(m)
        PROVE  Removed = {}
    BY <1>4 DEF SetConfig, Removed
  <1>5. CASE CrashAndRestart
    BY <1>5 DEF CrashAndRestart, Removed
  <1>6. CASE UNCHANGED vars
    BY <1>6 DEF vars, Removed
  <1> QED
    BY <1>1, <1>2, <1>3, <1>4, <1>5, <1>6 DEF Next, Enforce

MustRemove ==
    \A p \in Removed :
        /\ limit >= 0
        /\ Total >= limit
        /\ \A q \in DOMAIN recordings' : recordings[q].age <= recordings[p].age

LEMMA StepRemovesOnlyWhatItMust ==
    ASSUME RetentionInv, [Next]_vars
    PROVE  MustRemove
  <1>1. CASE ~RemoveOldest
    BY <1>1, OnlyTheLoopRemoves DEF MustRemove
  <1>2. CASE RemoveOldest
    <2>1. recordings' = Without(oldest) /\ PickStands /\ thread = "removing"
      BY <1>2 DEF RemoveOldest, RetentionInv
    <2>2. DOMAIN recordings' = DOMAIN recordings \ {oldest} /\ Removed = {oldest}
      BY <2>1 DEF Without, Removed, PickStands, Oldest
    <2> QED
      BY <2>1, <2>2 DEF MustRemove, PickStands, Oldest
  <1> QED
    BY <1>1, <1>2

\* The oldest recordings go, each of them picked while the recordings that are
\* there reached a limit that was in force then, whatever the main thread does
\* to it before the removal and whatever the clock does; none is picked while
\* the limit is negative.
THEOREM RemovalsAreNeeded == Spec => RemovesOnlyWhatItMust
  <1>1. RetentionInv /\ [Next]_vars => [MustRemove]_vars
    BY StepRemovesOnlyWhatItMust
  <1>2. Spec => [][MustRemove]_vars
    BY <1>1, RetentionStays, PTL DEF Spec
  <1> QED
    BY <1>2 DEF RemovesOnlyWhatItMust, MustRemove

===============================================================================
