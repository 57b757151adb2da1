--------------------------- MODULE HttpAccessProofs ---------------------------
(***************************************************************************)
(* For every set of files, names and passwords: lookups find what the      *)
(* table of users says, what is answered is what the table says, and       *)
(* requests end the server only where the file is unreadable or changes in *)
(* the middle of a request.                                                *)
(***************************************************************************)
EXTENDS HttpAccess, WellFoundedInduction, TLAPS

\* Between its two lookups a request for /logs has named somebody.
SomebodyAsks == pc = "role" => req.user # Empty /\ req.pass # Empty

AccessInv == TypeOK /\ SomebodyAsks

\* The first answers: one lookup at most.
Answered(r) == Public(r) \/ Recordings(r) \/ Logs(r)

LEMMA RequestType == \A r \in Request :
                        /\ r.uri \in Uri /\ r.user \in Name \cup {Empty}
                        /\ r.pass \in Password \cup {Empty}
BY DEF Request

LEMMA AccessInitial == Init => AccessInv
BY AccessAssumption DEF Init, AccessInv, TypeOK, SomebodyAsks, State

\* One request leaves the types and what is known between the lookups.
LEMMA AccessKept == AccessInv /\ [Next]_vars => AccessInv'
<1> SUFFICES ASSUME AccessInv, [Next]_vars PROVE AccessInv'
  OBVIOUS
<1> USE AccessAssumption DEF AccessInv, TypeOK, SomebodyAsks
<1>1. CASE HttpHandler
  <2>1. PICK r \in Request : Answered(r)
    BY <1>1 DEF HttpHandler, Answered
  <2>2. file' \in State /\ edited' \in BOOLEAN
    BY <1>1 DEF HttpHandler
  <2>3. CASE Public(r)
    BY <2>2, <2>3 DEF Public, Reply
  <2>4. CASE Recordings(r)
    BY <2>2, <2>4 DEF Recordings, Reply, Crash
  <2>5. CASE Logs(r)
    <3>1. CASE LookupThrows(r)
      BY <2>2, <2>5, <3>1 DEF Logs, Crash
    <3>2. CASE ~LookupThrows(r) /\ Authorized(r)
      <4>1. pc' = "role" /\ req' = r /\ code' = 0
        BY <2>5, <3>2 DEF Logs
      <4>2. r.user # Empty /\ r.pass # Empty /\ r.uri = "/logs"
        BY <2>5, <3>2 DEF Logs, Authorized
      <4> QED BY <2>2, <4>1, <4>2
    <3>3. CASE ~LookupThrows(r) /\ ~Authorized(r)
      BY <2>2, <2>5, <3>3 DEF Logs, Reply
    <3> QED BY <3>1, <3>2, <3>3
  <2> QED BY <2>1, <2>3, <2>4, <2>5 DEF Answered
<1>2. CASE LogsRole
  BY <1>2 DEF LogsRole, Crash, Reply
<1>3. CASE EditFile
  BY <1>3 DEF EditFile
<1>4. CASE UNCHANGED vars
  BY <1>4 DEF vars
<1> QED BY <1>1, <1>2, <1>3, <1>4 DEF Next

\* Every variable keeps its type (server_http_handler).
THEOREM AccessTypeCorrect == Spec => []TypeOK
<1>1. Spec => []AccessInv
  BY AccessInitial, AccessKept, PTL DEF Spec
<1> QED BY <1>1, PTL DEF AccessInv

-------------------------------------------------------------------------------
\* Who has logged in for /logs is still found by the second lookup, unless the
\* file was edited.
StillThere ==
    /\ pc = "role" /\ ~edited => file # Unreadable /\ Lookup(req.user) # NotFound
    /\ RequestsDoNotCrash

LEMMA StaysFound == AccessInv /\ StillThere /\ [Next]_vars => StillThere'
<1> SUFFICES ASSUME AccessInv, StillThere, [Next]_vars PROVE StillThere'
  OBVIOUS
<1>1. CASE HttpHandler
  <2>1. PICK r \in Request : Answered(r)
    BY <1>1 DEF HttpHandler, Answered
  <2>2. file' = file
    BY <1>1 DEF HttpHandler
  <2>3. CASE Public(r)
    BY <2>3 DEF Public, Reply, StillThere, RequestsDoNotCrash
  <2>4. CASE Recordings(r)
    BY <2>2, <2>4 DEF Recordings, Reply, Crash, LookupThrows, StillThere, RequestsDoNotCrash
  <2>5. CASE Logs(r) /\ LookupThrows(r)
    BY <2>2, <2>5 DEF Logs, Crash, LookupThrows, StillThere, RequestsDoNotCrash
  <2>6. CASE Logs(r) /\ ~LookupThrows(r) /\ Authorized(r)
    <3>1. pc' = "role" /\ req' = r
      BY <2>6 DEF Logs
    <3>2. file # Unreadable /\ Lookup(r.user) # NotFound
      BY <2>6 DEF Authorized, LookupThrows
    <3>3. Lookup(req.user)' = Lookup(r.user)
      BY <2>2, <3>1 DEF Lookup
    <3> QED BY <2>2, <3>1, <3>2, <3>3 DEF StillThere, RequestsDoNotCrash
  <2>7. CASE Logs(r) /\ ~LookupThrows(r) /\ ~Authorized(r)
    BY <2>7 DEF Logs, Reply, StillThere, RequestsDoNotCrash
  <2> QED BY <2>1, <2>3, <2>4, <2>5, <2>6, <2>7 DEF Answered
<1>2. CASE LogsRole
  <2>1. pc = "role" /\ file' = file /\ edited' = edited
    BY <1>2 DEF LogsRole
  <2>2. CASE file = Unreadable \/ Lookup(req.user) = NotFound
    BY <1>2, <2>1, <2>2 DEF LogsRole, Crash, StillThere, RequestsDoNotCrash
  <2>3. CASE ~(file = Unreadable \/ Lookup(req.user) = NotFound)
    BY <1>2, <2>3 DEF LogsRole, Reply, StillThere, RequestsDoNotCrash
  <2> QED BY <2>2, <2>3
<1>3. CASE EditFile
  BY <1>3 DEF EditFile, StillThere, RequestsDoNotCrash
<1>4. CASE UNCHANGED vars
  BY <1>4 DEF vars, StillThere, RequestsDoNotCrash, Lookup
<1> QED BY <1>1, <1>2, <1>3, <1>4 DEF Next

\* No request ends the server, although the result of the second lookup of
\* /logs is used unchecked, for any files, names and passwords, unless the file
\* cannot be read or was edited between the two lookups.
THEOREM RequestsAreHarmless == Spec => []RequestsDoNotCrash
<1>1. Init => StillThere
  BY DEF Init, StillThere, RequestsDoNotCrash
<1>2. AccessInv /\ StillThere /\ [Next]_vars => StillThere'
  BY StaysFound
<1>3. StillThere => RequestsDoNotCrash
  BY DEF StillThere
<1> QED BY <1>1, <1>2, <1>3, AccessInitial, AccessKept, PTL DEF Spec

-------------------------------------------------------------------------------
(* Lookups find what the table says.  Induction is over sets of natural    *)
(* numbers: each that is not empty has a least one.                        *)

LEMMA Least ==
    ASSUME NEW S, S \subseteq Nat, S # {}
    PROVE  Min(S) \in S /\ \A m \in S : Min(S) <= m
  <1>1. PICK n \in S : \A m \in S : ~(<<m, n>> \in OpToRel(<, Nat))
    BY NatLessThanWellFounded, WFMin
  <1>2. \A m \in S : n <= m
    <2> SUFFICES ASSUME NEW m \in S PROVE n <= m
      OBVIOUS
    <2>1. m \in Nat /\ n \in Nat
      OBVIOUS
    <2>2. ~(m < n)
      BY <1>1, <2>1 DEF OpToRel
    <2> QED BY <2>1, <2>2
  <1> QED BY <1>2 DEF Min

LEMMA LeastIs ==
    ASSUME NEW S, S \subseteq Nat, NEW n \in S, \A m \in S : n <= m
    PROVE  Min(S) = n
  <1>1. Min(S) \in S /\ \A m \in S : Min(S) <= m
    BY Least
  <1>2. Min(S) \in Nat /\ n \in Nat /\ Min(S) <= n /\ n <= Min(S)
    BY <1>1
  <1> QED BY <1>2

LEMMA NaturalInduction ==
    ASSUME NEW T, 0 \in T, \A n \in Nat : n \in T => n + 1 \in T
    PROVE  \A n \in Nat : n \in T
  <1> DEFINE missing == Nat \ T
  <1>1. SUFFICES ASSUME missing # {} PROVE FALSE
    OBVIOUS
  <1>2. missing \subseteq Nat
    OBVIOUS
  <1> DEFINE n == Min(missing)
  <1>3. n \in missing /\ \A m \in missing : n <= m
    <2> HIDE DEF missing
    <2> QED BY <1>1, <1>2, Least
  <1> HIDE DEF n
  <1>4. n # 0 /\ n \in Nat
    BY <1>3
  <1>5. n - 1 \in Nat /\ n - 1 \in T
    BY <1>3, <1>4
  <1> QED BY <1>3, <1>4, <1>5

\* What the loop of get_userdata looks for in a row, and what it takes.
Fits(lines, name, u, p, r, k) ==
    Len(Entry(lines[k])) >= Max({u, p, r}) /\ Entry(lines[k])[u] = name
Taken(lines, p, r, k) ==
    [password |-> Entry(lines[k])[p], role |-> Entry(lines[k])[r]]

\* The first of the rows from k on that fit, for the recursion of Scan.
FirstFrom(lines, name, u, p, r, k) ==
    LET fit == {j \in k..Len(lines) : Fits(lines, name, u, p, r, j)}
    IN  IF fit = {} THEN NotFound ELSE Taken(lines, p, r, Min(fit))

Step(lines, name, u, p, r, f, k) ==
    IF k > Len(lines) THEN NotFound
    ELSE IF Fits(lines, name, u, p, r, k) THEN Taken(lines, p, r, k) ELSE f[k + 1]

LEMMA FirstFromSteps ==
    ASSUME NEW lines, Len(lines) \in Nat, NEW name, NEW u, NEW p, NEW r,
           NEW k \in 1..Len(lines) + 1
    PROVE  FirstFrom(lines, name, u, p, r, k) =
              IF k > Len(lines) THEN NotFound
              ELSE IF Fits(lines, name, u, p, r, k) THEN Taken(lines, p, r, k)
              ELSE FirstFrom(lines, name, u, p, r, k + 1)
  <1> DEFINE fit(i) == {j \in i..Len(lines) : Fits(lines, name, u, p, r, j)}
  <1>0. \A i : FirstFrom(lines, name, u, p, r, i) =
                  IF fit(i) = {} THEN NotFound ELSE Taken(lines, p, r, Min(fit(i)))
    BY DEF FirstFrom
  <1>1. CASE k > Len(lines)
    <2>1. fit(k) = {}
      BY <1>1
    <2> HIDE DEF fit
    <2> QED BY <1>0, <1>1, <2>1
  <1>2. CASE k <= Len(lines) /\ Fits(lines, name, u, p, r, k)
    <2>1. k \in fit(k) /\ fit(k) \subseteq Nat /\ \A m \in fit(k) : k <= m
      BY <1>2
    <2>2. Min(fit(k)) = k
      <3> HIDE DEF fit
      <3> QED BY <2>1, LeastIs
    <2> HIDE DEF fit
    <2> QED BY <1>0, <1>2, <2>1, <2>2
  <1>3. CASE k <= Len(lines) /\ ~Fits(lines, name, u, p, r, k)
    <2>1. fit(k) = fit(k + 1)
      BY <1>3
    <2> HIDE DEF fit
    <2> QED BY <1>0, <1>3, <2>1
  <1> QED BY <1>1, <1>2, <1>3

LEMMA ScanIsFirst ==
    ASSUME NEW lines, Len(lines) \in Nat \ {0}, NEW name, NEW u, NEW p, NEW r
    PROVE  Scan(lines, name, u, p, r) = FirstFrom(lines, name, u, p, r, 2)
  <1> DEFINE D == 1..Len(lines) + 1
             f == CHOOSE f : f = [k \in D |-> Step(lines, name, u, p, r, f, k)]
             g == [k \in D |-> FirstFrom(lines, name, u, p, r, k)]
             T == {d \in Nat : d <= Len(lines) => f[Len(lines) + 1 - d] = g[Len(lines) + 1 - d]}
  <1>1. Scan(lines, name, u, p, r) = f[2]
    BY DEF Scan, Step, Fits, Taken
  <1>2. \A k \in D : g[k] = FirstFrom(lines, name, u, p, r, k)
    OBVIOUS
  <1>3. \A k \in D : g[k] = Step(lines, name, u, p, r, g, k)
    <2> SUFFICES ASSUME NEW k \in D PROVE g[k] = Step(lines, name, u, p, r, g, k)
      OBVIOUS
    <2>1. k <= Len(lines) => k + 1 \in D
      OBVIOUS
    <2> HIDE DEF g
    <2> QED BY <1>2, <2>1, FirstFromSteps DEF Step
  <1>4. g = [k \in D |-> Step(lines, name, u, p, r, g, k)]
    BY <1>3
  <1>5. f = [k \in D |-> Step(lines, name, u, p, r, f, k)]
    BY <1>4
  <1> HIDE DEF f, g
  <1>6. \A k \in D : f[k] = Step(lines, name, u, p, r, f, k)
    BY <1>5
  <1>7. 0 \in T
    <2>1. Len(lines) + 1 \in D
      OBVIOUS
    <2> QED BY <1>3, <1>6, <2>1 DEF Step
  <1>8. ASSUME NEW d \in Nat, d \in T PROVE d + 1 \in T
    <2> SUFFICES ASSUME d + 1 <= Len(lines)
                 PROVE  f[Len(lines) + 1 - (d + 1)] = g[Len(lines) + 1 - (d + 1)]
      OBVIOUS
    <2> DEFINE k == Len(lines) - d
    <2>1. k \in D /\ k + 1 = Len(lines) + 1 - d /\ k = Len(lines) + 1 - (d + 1)
      OBVIOUS
    <2>2. f[k + 1] = g[k + 1]
      BY <1>8, <2>1
    <2> HIDE DEF k
    <2>3. f[k] = g[k]
      BY <1>3, <1>6, <2>1, <2>2 DEF Step
    <2> QED BY <2>1, <2>3
  <1> HIDE DEF T
  <1>9. Len(lines) - 1 \in T
    BY <1>7, <1>8, NaturalInduction
  <1>10. f[2] = g[2]
    BY <1>9 DEF T
  <1> QED BY <1>1, <1>2, <1>10

-------------------------------------------------------------------------------
(* Lines, entries and columns.                                             *)

LEMMA SequenceIs ==
    ASSUME NEW s, IsSequence(s)
    PROVE  Len(s) \in Nat /\ DOMAIN s = 1..Len(s) /\ s \in Seq(ToSet(s))
  BY DEF IsSequence

LEMMA EmptyOrNot ==
    ASSUME NEW S, NEW s \in Seq(S)
    PROVE  /\ Len(s) \in Nat /\ (Len(s) = 0 <=> s = <<>>)
           /\ s # <<>> => Head(s) = s[1]
  OBVIOUS

\* getline loses a last line without its newline.
LEMMA ReadLinesAre ==
    ASSUME NEW csv, IsFile(csv)
    PROVE  /\ Len(ReadLines(csv)) \in Nat
           /\ \A k \in Nat \ {0} :
                k <= Len(ReadLines(csv)) <=>
                    k <= Len(csv.lines) /\ (k < Len(csv.lines) \/ csv.newline)
           /\ \A k \in 1..Len(ReadLines(csv)) : ReadLines(csv)[k] = csv.lines[k]
           /\ Len(ReadLines(csv)) # 0 => Head(ReadLines(csv)) = csv.lines[1]
           /\ Len(ReadLines(csv)) = 0 <=> ReadLines(csv) = <<>>
  <1> DEFINE l == csv.lines
  <1>1. /\ Len(l) \in Nat /\ DOMAIN l = 1..Len(l) /\ l \in Seq(ToSet(l))
        /\ csv.newline \in BOOLEAN
    BY SequenceIs DEF IsFile
  <1>2. CASE csv.newline \/ l = <<>>
    BY <1>1, <1>2 DEF ReadLines
  <1>3. CASE ~csv.newline /\ l # <<>>
    <2> DEFINE f == SubSeq(l, 1, Len(l) - 1)
    <2>1. ReadLines(csv) = f
      BY <1>3 DEF ReadLines, Front
    <2>2. Len(l) > 0
      BY <1>1, <1>3
    <2>3. /\ f \in Seq(ToSet(l)) /\ Len(f) = Len(l) - 1
          /\ \A k \in 1..Len(l) - 1 : f[k] = l[k]
      BY <1>1, <2>2
    <2> HIDE DEF f
    <2>4. Len(f) # 0 => Head(f) = l[1]
      <3> SUFFICES ASSUME Len(f) # 0 PROVE Head(f) = l[1]
        OBVIOUS
      <3>1. Len(l) - 1 # 0 /\ Len(l) \in Nat
        BY <1>1, <2>3
      <3>2. f[1] = l[1]
        <4> HIDE DEF l
        <4> DEFINE n == Len(l)
        <4>0. n \in Nat /\ n > 0 /\ n - 1 # 0
          BY <2>2, <3>1
        <4>1. 1 \in 1..n - 1
          <5> HIDE DEF n
          <5> QED BY <4>0
        <4> QED BY <2>3, <4>1
      <3>3. Head(f) = f[1]
        BY <2>3, EmptyOrNot
      <3> QED BY <3>2, <3>3
    <2>5. Len(f) = 0 <=> f = <<>>
      BY <2>3, EmptyOrNot
    <2>6. \A k \in Nat \ {0} :
            k <= Len(f) <=> k <= Len(l) /\ (k < Len(l) \/ csv.newline)
      BY <1>1, <1>3, <2>3
    <2>7. Len(f) \in Nat /\ \A k \in 1..Len(f) : f[k] = l[k]
      BY <2>3
    <2> QED BY <2>1, <2>4, <2>5, <2>6, <2>7
  <1> QED BY <1>2, <1>3

\* read_csv_entry loses a last cell that is empty.
LEMMA EntryIs ==
    ASSUME NEW line, IsLine(line)
    PROVE  /\ IsSequence(Entry(line)) /\ Len(Entry(line)) \in Nat
           /\ \A i \in Nat \ {0} :
                i <= Len(Entry(line)) <=>
                    i <= Len(line.cells) /\ (i < Len(line.cells) \/ line.cells[i] # Empty)
           /\ \A i \in 1..Len(Entry(line)) : Entry(line)[i] = line.cells[i]
  <1> DEFINE c == line.cells
  <1>1. Len(c) \in Nat /\ DOMAIN c = 1..Len(c) /\ c \in Seq(ToSet(c))
    BY SequenceIs DEF IsLine
  <1>2. CASE c = <<>>
    BY <1>2 DEF Entry, IsSequence, ToSet
  <1>3. CASE c # <<>> /\ c[Len(c)] # Empty
    BY <1>1, <1>3 DEF Entry, Last, IsSequence
  <1>4. CASE c # <<>> /\ c[Len(c)] = Empty
    <2> DEFINE f == SubSeq(c, 1, Len(c) - 1)
    <2>1. Entry(line) = f
      BY <1>4 DEF Entry, Front, Last, IsLine
    <2>2. Len(c) > 0
      BY <1>1, <1>4
    <2>3. /\ f \in Seq(ToSet(c)) /\ Len(f) = Len(c) - 1
          /\ \A k \in 1..Len(c) - 1 : f[k] = c[k]
      BY <1>1, <2>2
    <2> HIDE DEF f
    <2>4. IsSequence(f)
      <3>1. \A k \in 1..Len(f) : f[k] \in ToSet(f)
        BY <2>3 DEF ToSet
      <3>2. f \in [1..Len(f) -> ToSet(f)]
        BY <2>3, <3>1
      <3> QED BY <2>3, <3>2 DEF IsSequence
    <2> QED BY <1>1, <1>4, <2>1, <2>2, <2>3, <2>4
  <1> QED BY <1>2, <1>3, <1>4

FirstAt(names, column, i) ==
    /\ i \in DOMAIN names /\ names[i] = column
    /\ \A j \in 1..i - 1 : names[j] # column

LEMMA IndexIs ==
    ASSUME NEW names, IsSequence(names), NEW column
    PROVE  /\ IndexOf(names, column) = 0 <=> column \notin ToSet(names)
           /\ column \in ToSet(names) => FirstAt(names, column, IndexOf(names, column))
  <1> DEFINE places == {i \in DOMAIN names : names[i] = column}
  <1>1. DOMAIN names = 1..Len(names) /\ Len(names) \in Nat
    BY SequenceIs
  <1>2. places # {} <=> column \in ToSet(names)
    BY DEF ToSet
  <1>3. places \subseteq Nat /\ 0 \notin places
    BY <1>1
  <1>4. IndexOf(names, column) = IF places = {} THEN 0 ELSE Min(places)
    BY DEF IndexOf
  <1>5. ASSUME places # {}
        PROVE  IndexOf(names, column) # 0 /\ FirstAt(names, column, IndexOf(names, column))
    <2> DEFINE m == Min(places)
    <2>1. m \in places /\ \A i \in places : m <= i
      <3> HIDE DEF places
      <3> QED BY <1>3, <1>5, Least
    <2> HIDE DEF m
    <2>2. \A j \in 1..m - 1 : names[j] # column
      BY <1>1, <2>1
    <2>3. IndexOf(names, column) = m
      BY <1>4, <1>5 DEF m
    <2> QED BY <1>3, <2>1, <2>2, <2>3 DEF FirstAt
  <1> HIDE DEF places
  <1> QED BY <1>2, <1>4, <1>5

\* In the header, an entry has the named columns of its line, at their places.
LEMMA HeaderColumns ==
    ASSUME NEW line, IsLine(line), NEW column, column # Empty
    PROVE  /\ column \in ToSet(Entry(line)) <=> column \in ToSet(line.cells)
           /\ \A i : FirstAt(Entry(line), column, i) => FirstAt(line.cells, column, i)
  <1> DEFINE e == Entry(line)
             c == line.cells
  <1>1. /\ DOMAIN e = 1..Len(e) /\ Len(e) \in Nat
        /\ DOMAIN c = 1..Len(c) /\ Len(c) \in Nat
    BY EntryIs, SequenceIs DEF IsLine
  <1>2. \A i \in Nat \ {0} : i <= Len(e) <=> i <= Len(c) /\ (i < Len(c) \/ c[i] # Empty)
    BY EntryIs
  <1>3. \A i \in 1..Len(e) : e[i] = c[i]
    BY EntryIs
  <1> HIDE DEF e, c
  <1>4. ASSUME column \in ToSet(c) PROVE column \in ToSet(e)
    <2>1. PICK i \in 1..Len(c) : c[i] = column
      BY <1>1, <1>4 DEF ToSet
    <2>2. i \in 1..Len(e)
      BY <1>1, <1>2, <2>1
    <2> QED BY <1>1, <1>3, <2>1, <2>2 DEF ToSet
  <1>5. ASSUME column \in ToSet(e) PROVE column \in ToSet(c)
    <2>1. PICK i \in 1..Len(e) : e[i] = column
      BY <1>1, <1>5 DEF ToSet
    <2>2. i \in 1..Len(c)
      BY <1>1, <1>2, <2>1
    <2> QED BY <1>1, <1>3, <2>1, <2>2 DEF ToSet
  <1>6. ASSUME NEW i, FirstAt(e, column, i) PROVE FirstAt(c, column, i)
    <2>1. i \in 1..Len(e) /\ e[i] = column /\ \A j \in 1..i - 1 : e[j] # column
      BY <1>1, <1>6 DEF FirstAt
    <2>2. i \in 1..Len(c) /\ c[i] = column
      BY <1>1, <1>2, <1>3, <2>1
    <2>3. \A j \in 1..i - 1 : j \in 1..Len(e)
      BY <1>1, <2>1
    <2>4. \A j \in 1..i - 1 : c[j] # column
      BY <1>3, <2>1, <2>3
    <2> QED BY <1>1, <2>2, <2>4 DEF FirstAt
  <1> QED BY <1>4, <1>5, <1>6 DEF e, c

\* There is one first place of a column.
LEMMA FirstIsOne ==
    ASSUME NEW names, IsSequence(names), NEW column, NEW i, NEW k,
           FirstAt(names, column, i), k \in Nat \ {0}, names[k] = column,
           \A j \in 1..k - 1 : names[j] # column
    PROVE  k = i
  <1>1. i \in Nat \ {0} /\ names[i] = column
    BY SequenceIs DEF FirstAt
  <1>2. ~(i < k) /\ ~(k < i)
    BY <1>1 DEF FirstAt
  <1> QED BY <1>1, <1>2

LEMMA MaxIs ==
    ASSUME NEW n \in Nat, NEW u \in Nat, NEW p \in Nat, NEW r \in Nat
    PROVE  n >= Max({u, p, r}) <=> u <= n /\ p <= n /\ r <= n
  <1>1. PICK m \in {u, p, r} : \A y \in {u, p, r} : m >= y
    <2>1. CASE u >= p /\ u >= r
      BY <2>1
    <2>2. CASE p >= u /\ p >= r
      BY <2>2
    <2>3. CASE r >= u /\ r >= p
      BY <2>3
    <2> QED BY <2>1, <2>2, <2>3
  <1>2. Max({u, p, r}) \in {u, p, r} /\ \A y \in {u, p, r} : Max({u, p, r}) >= y
    BY <1>1 DEF Max
  <1> QED BY <1>2

-------------------------------------------------------------------------------
(* Rows and cells.                                                         *)

\* A row has a value in a column exactly if its entry reaches that far.
LEMMA RowReaches ==
    ASSUME NEW row, IsLine(row), NEW names, IsSequence(names), NEW column, NEW i,
           FirstAt(names, column, i)
    PROVE  (\E j \in DOMAIN row.cells :
               /\ names[j] = column
               /\ \A m \in 1..j - 1 : names[m] # column
               /\ j < Len(row.cells) \/ row.cells[j] # Empty)
           <=> i <= Len(Entry(row))
  <1>1. DOMAIN row.cells = 1..Len(row.cells) /\ Len(row.cells) \in Nat
    BY SequenceIs DEF IsLine
  <1>2. /\ i \in Nat \ {0} /\ names[i] = column /\ \A m \in 1..i - 1 : names[m] # column
    BY SequenceIs DEF FirstAt
  <1>3. i <= Len(Entry(row)) <=>
           i <= Len(row.cells) /\ (i < Len(row.cells) \/ row.cells[i] # Empty)
    BY <1>2, EntryIs
  <1>4. ASSUME NEW j \in DOMAIN row.cells, names[j] = column,
               \A m \in 1..j - 1 : names[m] # column
        PROVE  j = i
    <2>1. j \in Nat \ {0}
      BY <1>1
    <2> QED BY <1>4, <2>1, FirstIsOne
  <1>5. i <= Len(row.cells) <=> i \in DOMAIN row.cells
    BY <1>1, <1>2
  <1>6. ASSUME i <= Len(Entry(row))
        PROVE  \E j \in DOMAIN row.cells :
                  /\ names[j] = column
                  /\ \A m \in 1..j - 1 : names[m] # column
                  /\ j < Len(row.cells) \/ row.cells[j] # Empty
    BY <1>2, <1>3, <1>5, <1>6
  <1>7. ASSUME NEW j \in DOMAIN row.cells, names[j] = column,
               \A m \in 1..j - 1 : names[m] # column,
               j < Len(row.cells) \/ row.cells[j] # Empty
        PROVE  i <= Len(Entry(row))
    <2>1. j = i
      BY <1>4, <1>7
    <2> QED BY <1>3, <1>5, <1>7, <2>1
  <1> QED BY <1>6, <1>7

HeaderCells(csv) == csv.lines[1].cells

LEMMA CellIs ==
    ASSUME NEW csv, IsSequence(HeaderCells(csv)), NEW k, NEW column, NEW i,
           FirstAt(HeaderCells(csv), column, i)
    PROVE  Cell(csv, k, column) = csv.lines[k].cells[i]
  <1> DEFINE names == HeaderCells(csv)
             j == CHOOSE j \in DOMAIN names :
                    names[j] = column /\ \A m \in 1..j - 1 : names[m] # column
  <1>1. DOMAIN names = 1..Len(names) /\ Len(names) \in Nat
    BY SequenceIs
  <1>2. j \in DOMAIN names /\ names[j] = column /\ \A m \in 1..j - 1 : names[m] # column
    BY DEF FirstAt
  <1>3. j = i
    <2> HIDE DEF j
    <2>1. j \in Nat \ {0}
      BY <1>1, <1>2
    <2> QED BY <1>2, <2>1, FirstIsOne
  <1>4. Cell(csv, k, column) = csv.lines[k].cells[j]
    BY DEF Cell, HeaderCells
  <1> QED BY <1>3, <1>4

Wanted == {"username", "password", "role"}

\* The loop over the lines of a file finds what its table says.
LEMMA LookupIsFirst ==
    ASSUME NEW csv, IsFile(csv), NEW name, Empty \notin Wanted
    PROVE  GetUserdata(csv, name) = FirstOf(csv, name)
  <1> DEFINE l == csv.lines
             lines == ReadLines(csv)
             names == IF lines = <<>> THEN <<>> ELSE Entry(Head(lines))
             u == IndexOf(names, "username")
             p == IndexOf(names, "password")
             r == IndexOf(names, "role")
             mine == {k \in Users(csv) : Cell(csv, k, "username") = name}
  <1>1. GetUserdata(csv, name) =
            IF 0 \in {u, p, r} THEN NotFound ELSE Scan(lines, name, u, p, r)
    BY DEF GetUserdata
  <1>2. FirstOf(csv, name) =
            IF mine = {} THEN NotFound
            ELSE [password |-> Cell(csv, Min(mine), "password"),
                  role |-> Cell(csv, Min(mine), "role")]
    BY DEF FirstOf
  <1>3. /\ Len(lines) \in Nat
        /\ \A k \in Nat \ {0} :
             k <= Len(lines) <=> k <= Len(l) /\ (k < Len(l) \/ csv.newline)
        /\ \A k \in 1..Len(lines) : lines[k] = l[k]
        /\ Len(lines) # 0 => Head(lines) = l[1]
        /\ Len(lines) = 0 <=> lines = <<>>
    BY ReadLinesAre
  <1>4. /\ Len(l) \in Nat /\ DOMAIN l = 1..Len(l) /\ \A k \in DOMAIN l : IsLine(l[k])
        /\ l = <<>> => Len(l) = 0
    BY SequenceIs DEF IsFile
  <1>5. \A k \in Users(csv) : k \in 2..Len(lines) /\ Wanted \subseteq Columns(csv)
    <2> SUFFICES ASSUME NEW k \in Users(csv)
                 PROVE  k \in 2..Len(lines) /\ Wanted \subseteq Columns(csv)
      OBVIOUS
    <2>1. k \in 2..Len(l) /\ (k < Len(l) \/ csv.newline) /\ Wanted \subseteq Columns(csv)
      BY DEF Users, Wanted
    <2> HIDE DEF lines, l
    <2> QED BY <1>3, <1>4, <2>1
  <1>6. CASE lines = <<>>
    <2>1. IsSequence(<<>>) /\ ToSet(<<>>) = {}
      BY DEF IsSequence, ToSet
    <2>2. u = 0
      BY <1>6, <2>1, IndexIs
    <2>3. Users(csv) = {}
      <3> HIDE DEF lines
      <3> QED BY <1>3, <1>5, <1>6
    <2>4. mine = {}
      BY <2>3
    <2> HIDE DEF u, p, r, mine
    <2> QED BY <1>1, <1>2, <2>2, <2>4
  <1>7. CASE lines # <<>>
    <2> DEFINE header == l[1]
    <2>1. /\ IsLine(header) /\ names = Entry(header) /\ IsSequence(names)
          /\ Columns(csv) = ToSet(header.cells) /\ IsSequence(header.cells)
      <3>1. Len(lines) # 0
        BY <1>3, <1>7
      <3>2. 1 <= Len(l) /\ Head(lines) = l[1]
        <4>1. 1 <= Len(lines)
          BY <1>3, <3>1
        <4> HIDE DEF lines, l
        <4> QED BY <1>3, <3>1, <4>1
      <3>3. IsLine(header) /\ l # <<>>
        BY <1>4, <3>2
      <3>4. names = Entry(header)
        BY <1>7, <3>2
      <3> QED BY <3>3, <3>4, EntryIs DEF Columns, IsLine
    <2> DEFINE at(c) == IndexOf(names, c)
    <2>2. ASSUME NEW c \in Wanted
          PROVE  /\ at(c) = 0 <=> c \notin Columns(csv)
                 /\ c \in Columns(csv) => FirstAt(header.cells, c, at(c))
      <3> HIDE DEF names, header
      <3>1. c # Empty
        OBVIOUS
      <3> QED BY <2>1, <3>1, IndexIs, HeaderColumns
    <2>3. CASE 0 \in {u, p, r}
      <3>1. PICK c \in Wanted : at(c) = 0
        BY <2>3 DEF Wanted
      <3>2. c \notin Columns(csv)
        BY <2>2, <3>1
      <3>3. mine = {}
        BY <1>5, <3>2
      <3> HIDE DEF u, p, r, mine
      <3> QED BY <1>1, <1>2, <2>3, <3>3
    <2>4. CASE 0 \notin {u, p, r}
      <3>1. \A c \in Wanted : at(c) # 0
        BY <2>4 DEF Wanted
      <3>2. \A c \in Wanted : c \in Columns(csv) /\ FirstAt(header.cells, c, at(c))
        BY <2>2, <3>1
      <3>3. \A c \in Wanted : at(c) \in Nat \ {0}
        BY <2>1, <3>2, SequenceIs DEF FirstAt
      <3>4. ASSUME NEW k \in 2..Len(lines)
            PROVE  /\ IsLine(l[k])
                   /\ k \in Users(csv) <=> \A c \in Wanted : at(c) <= Len(Entry(l[k]))
                   /\ \A c \in Wanted : Cell(csv, k, c) = l[k].cells[at(c)]
        <4>1. k \in 2..Len(l) /\ (k < Len(l) \/ csv.newline)
          <5> HIDE DEF lines, l
          <5> QED BY <1>3, <1>4
        <4>2. IsLine(l[k])
          BY <1>4, <4>1
        <4>3. k \in Users(csv) <=>
                 \A c \in Wanted : \E j \in DOMAIN l[k].cells :
                    /\ header.cells[j] = c
                    /\ \A m \in 1..j - 1 : header.cells[m] # c
                    /\ j < Len(l[k].cells) \/ l[k].cells[j] # Empty
          BY <3>2, <4>1 DEF Users, Wanted
        <4>4. ASSUME NEW c \in Wanted
              PROVE  (\E j \in DOMAIN l[k].cells :
                        /\ header.cells[j] = c
                        /\ \A m \in 1..j - 1 : header.cells[m] # c
                        /\ j < Len(l[k].cells) \/ l[k].cells[j] # Empty)
                     <=> at(c) <= Len(Entry(l[k]))
          <5>1. IsSequence(header.cells) /\ FirstAt(header.cells, c, at(c))
            BY <2>1, <3>2
          <5> HIDE DEF at, l, header
          <5> QED BY <5>1, <4>2, RowReaches
        <4>5. ASSUME NEW c \in Wanted PROVE Cell(csv, k, c) = l[k].cells[at(c)]
          <5> HIDE DEF at
          <5>1. IsSequence(HeaderCells(csv)) /\ FirstAt(HeaderCells(csv), c, at(c))
            BY <2>1, <3>2 DEF HeaderCells
          <5> QED BY <5>1, CellIs
        <4> QED BY <4>2, <4>3, <4>4, <4>5
      <3>5. ASSUME NEW k \in 2..Len(lines)
            PROVE  /\ Fits(lines, name, u, p, r, k) <=>
                          k \in Users(csv) /\ Cell(csv, k, "username") = name
                   /\ k \in Users(csv) =>
                          Taken(lines, p, r, k) = [password |-> Cell(csv, k, "password"),
                                                   role |-> Cell(csv, k, "role")]
        <4> DEFINE e == Entry(l[k])
        <4>1. lines[k] = l[k]
          BY <1>3
        <4>2. Len(e) \in Nat /\ \A i \in 1..Len(e) : e[i] = l[k].cells[i]
          BY <3>4, EntryIs
        <4>3. k \in Users(csv) <=> u <= Len(e) /\ p <= Len(e) /\ r <= Len(e)
          BY <3>4 DEF Wanted
        <4>4. u \in Nat \ {0} /\ p \in Nat \ {0} /\ r \in Nat \ {0}
          BY <3>3 DEF Wanted
        <4>5. /\ Cell(csv, k, "username") = l[k].cells[u]
              /\ Cell(csv, k, "password") = l[k].cells[p]
              /\ Cell(csv, k, "role") = l[k].cells[r]
          BY <3>4 DEF Wanted
        <4> HIDE DEF u, p, r, lines, l
        <4>6. Len(e) >= Max({u, p, r}) <=> k \in Users(csv)
          BY <4>2, <4>3, <4>4, MaxIs
        <4>7. k \in Users(csv) => /\ e[u] = Cell(csv, k, "username")
                                  /\ e[p] = Cell(csv, k, "password")
                                  /\ e[r] = Cell(csv, k, "role")
          BY <4>2, <4>3, <4>4, <4>5
        <4> QED BY <4>1, <4>6, <4>7 DEF Fits, Taken
      <3> DEFINE fit == {j \in 2..Len(lines) : Fits(lines, name, u, p, r, j)}
      <3>6. fit = mine
        <4> HIDE DEF u, p, r, lines, l
        <4> QED BY <1>5, <3>5
      <3>7. Scan(lines, name, u, p, r) =
               IF fit = {} THEN NotFound ELSE Taken(lines, p, r, Min(fit))
        <4>1. Len(lines) \in Nat \ {0}
          BY <1>3, <1>7
        <4> HIDE DEF u, p, r, lines
        <4> QED BY <4>1, ScanIsFirst DEF FirstFrom
      <3>8. mine # {} => Min(mine) \in Users(csv) /\ Min(mine) \in 2..Len(lines)
        <4>1. mine \subseteq Nat /\ mine \subseteq Users(csv)
          BY <1>5
        <4> HIDE DEF mine
        <4>2. mine # {} => Min(mine) \in mine
          BY <4>1, Least
        <4> QED BY <1>5, <4>1, <4>2
      <3> HIDE DEF u, p, r, lines, mine, fit
      <3> QED BY <1>1, <1>2, <2>4, <3>5, <3>6, <3>7, <3>8
    <2> QED BY <2>3, <2>4
  <1> QED BY <1>6, <1>7

LookupsRight == \A f \in Files, n \in Name : GetUserdata(f, n) = FirstOf(f, n)

LEMMA LookupsAreRight == LookupsRight
  BY AccessAssumption, LookupIsFirst DEF LookupsRight, Wanted

\* The loop over the lines of the file finds what the table says, for every
\* file: any order of columns, comments, blanks, rows that are too short, rows
\* of the same name, a last line without newline (UserDbCsv::get_userdata).
THEOREM LookupsFollowTable == Spec => []LookupMatchesTable
<1>1. LookupMatchesTable
  BY LookupsAreRight DEF LookupsRight, LookupMatchesTable
<1> QED BY <1>1, PTL

-------------------------------------------------------------------------------
(* Answers.                                                                *)

LEMMA LookupIsMeaning ==
    ASSUME NEW n \in Name, file \in State, file # Unreadable
    PROVE Lookup(n) = Meaning(n)
<1>1. CASE file = Missing
  BY <1>1, AccessAssumption DEF Lookup, Meaning
<1>2. CASE file # Missing
  <2>1. file \in Files
    BY <1>2, AccessAssumption DEF State
  <2> QED BY <1>2, <2>1, LookupsAreRight DEF Lookup, Meaning, LookupsRight
<1> QED BY <1>1, <1>2

\* Who gives his name and password is let in just when the table lists both.
LEMMA AuthorizedIsListed ==
    ASSUME NEW r \in Request, file \in State, ~LookupThrows(r)
    PROVE Authorized(r) <=> Listed(r)
<1>1. CASE r.user = Empty \/ r.pass = Empty
  BY <1>1 DEF Authorized, Listed
<1>2. CASE r.user # Empty /\ r.pass # Empty
  <2>1. file # Unreadable /\ r.user \in Name
    BY <1>2, RequestType DEF LookupThrows
  <2>2. Lookup(r.user) = Meaning(r.user)
    BY <2>1, LookupIsMeaning
  <2> QED BY <2>2 DEF Authorized, Listed
<1> QED BY <1>1, <1>2

LEMMA RepliesKept == AccessInv /\ RepliesMatchTable /\ [Next]_vars => RepliesMatchTable'
<1> SUFFICES ASSUME AccessInv, RepliesMatchTable, [Next]_vars PROVE RepliesMatchTable'
  OBVIOUS
<1>0. file \in State
  BY DEF AccessInv, TypeOK
<1>1. CASE HttpHandler
  <2>1. PICK r \in Request : Answered(r)
    BY <1>1 DEF HttpHandler, Answered
  <2>2. file' = file
    BY <1>1 DEF HttpHandler
  <2>3. Listed(r)' <=> Listed(r)
    BY <2>2 DEF Listed, Meaning
  <2>4. CASE Public(r)
    BY <2>4 DEF Public, Reply, RepliesMatchTable
  <2>5. CASE Recordings(r)
    <3>1. CASE LookupThrows(r)
      BY <2>5, <3>1 DEF Recordings, Crash, RepliesMatchTable
    <3>2. CASE ~LookupThrows(r)
      <4>1. /\ pc' = "poll" /\ req' = r /\ r.uri = "/recordings"
            /\ code' = IF Authorized(r) THEN 200 ELSE 401
        BY <2>5, <3>2 DEF Recordings, Reply
      <4>2. code' = IF Listed(r) THEN 200 ELSE 401
        BY <1>0, <3>2, <4>1, AuthorizedIsListed
      <4>3. Listed(req)' <=> Listed(r)
        BY <2>2, <4>1 DEF Listed, Meaning
      <4> QED BY <4>1, <4>2, <4>3 DEF RepliesMatchTable
    <3> QED BY <3>1, <3>2
  <2>6. CASE Logs(r)
    <3>1. CASE LookupThrows(r)
      BY <2>6, <3>1 DEF Logs, Crash, RepliesMatchTable
    <3>2. CASE ~LookupThrows(r) /\ Authorized(r)
      BY <2>6, <3>2 DEF Logs, RepliesMatchTable
    <3>3. CASE ~LookupThrows(r) /\ ~Authorized(r)
      <4>1. pc' = "poll" /\ req' = r /\ r.uri = "/logs" /\ code' = 401
        BY <2>6, <3>3 DEF Logs, Reply
      <4>2. ~Listed(r)
        BY <1>0, <3>3, AuthorizedIsListed
      <4>3. Listed(req)' <=> Listed(r)
        BY <2>2, <4>1 DEF Listed, Meaning
      <4> QED BY <4>1, <4>2, <4>3 DEF RepliesMatchTable
    <3> QED BY <3>1, <3>2, <3>3
  <2> QED BY <2>1, <2>4, <2>5, <2>6 DEF Answered
<1>2. CASE LogsRole
  <2>1. pc = "role" /\ file' = file
    BY <1>2 DEF LogsRole
  <2>2. CASE file = Unreadable \/ Lookup(req.user) = NotFound
    BY <1>2, <2>2 DEF LogsRole, Crash, RepliesMatchTable
  <2>3. CASE file # Unreadable /\ Lookup(req.user) # NotFound
    <3>1. /\ pc' = "poll" /\ req' = req
          /\ code' = IF Lookup(req.user).role = "admin" THEN 200 ELSE 403
      BY <1>2, <2>3 DEF LogsRole, Reply
    <3>2. req.uri = "/logs" /\ req.user \in Name
      <4>1. req.uri = "/logs" /\ req \in Request \cup {NoRequest} /\ req.user # Empty
        BY <2>1 DEF AccessInv, TypeOK, SomebodyAsks
      <4>2. req \in Request
        BY <4>1 DEF NoRequest
      <4> QED BY <4>1, <4>2, RequestType
    <3>3. Lookup(req.user) = Meaning(req.user)
      BY <1>0, <2>3, <3>2, LookupIsMeaning
    <3>4. Meaning(req.user)' = Meaning(req.user)
      BY <2>1, <3>1 DEF Meaning
    <3> QED BY <3>1, <3>2, <3>3, <3>4 DEF RepliesMatchTable
  <2> QED BY <2>2, <2>3
<1>3. CASE EditFile
  <2>1. CASE pc = "poll"
    BY <1>3, <2>1 DEF EditFile, NoRequest, RepliesMatchTable
  <2>2. CASE pc # "poll"
    BY <1>3, <2>2 DEF EditFile, RepliesMatchTable
  <2> QED BY <2>1, <2>2
<1>4. CASE UNCHANGED vars
  BY <1>4 DEF vars, RepliesMatchTable, Listed, Meaning
<1> QED BY <1>1, <1>2, <1>3, <1>4 DEF Next

\* Every answer is what the table says, wherever the file is edited, removed or
\* made unreadable in between (server_http_handler).
THEOREM AnswersFollowTable == Spec => []RepliesMatchTable
<1>1. Init => RepliesMatchTable
  BY DEF Init, NoRequest, RepliesMatchTable
<1>2. AccessInv /\ RepliesMatchTable /\ [Next]_vars => RepliesMatchTable'
  BY RepliesKept
<1> QED BY <1>1, <1>2, AccessInitial, AccessKept, PTL DEF Spec

===============================================================================
