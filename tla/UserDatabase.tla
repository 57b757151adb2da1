----------------------------- MODULE UserDatabase -----------------------------
(***************************************************************************)
(* The user database of the server (accounts/UserDbCsv.cpp): a CSV file    *)
(* that is read from its beginning for every lookup.                       *)
(*                                                                         *)
(* A file is a sequence of lines and whether the last one has its newline. *)
(* A line is a comment, a blank, or a row of cells, trimmed already.       *)
(***************************************************************************)
EXTENDS Naturals, Sequences, SequencesExt, FiniteSetsExt

CONSTANTS NotFound,       \* the null pointer
          Empty           \* the empty string

Comment == [kind |-> "comment", cells |-> <<>>]
Blank == [kind |-> "blank", cells |-> <<>>]
Row(cells) == [kind |-> "row", cells |-> cells]

IsSequence(s) == s \in Seq(ToSet(s))

\* A line as the loop of read_csv_entry takes it: comments and blanks hold nothing.
IsLine(line) == IsSequence(line.cells) /\ (line.kind # "row" => line.cells = <<>>)

IsFile(file) ==
    /\ file.newline \in BOOLEAN /\ IsSequence(file.lines)
    /\ \A k \in DOMAIN file.lines : IsLine(file.lines[k])

-------------------------------------------------------------------------------
\* getline ends at the end of the file without an error flag only when it met
\* a newline: a last line without one is not good().
ReadLines(file) ==
    IF file.newline \/ file.lines = <<>> THEN file.lines ELSE Front(file.lines)

\* read_csv_entry: the values of a good line.  getline on the stream of a row
\* gives no value after the last separator.
Entry(line) ==
    IF line.kind = "row" /\ line.cells # <<>> /\ Last(line.cells) = Empty
    THEN Front(line.cells)
    ELSE line.cells

\* index_of_str: the first place of a column, 0 when there is none.
IndexOf(names, column) ==
    LET places == {i \in DOMAIN names : names[i] = column}
    IN  IF places = {} THEN 0 ELSE Min(places)

\* Seeded fault: the last row of a name counts.
ScanLast(lines, name, u, p, r) ==
    LET from[k \in 0..Len(lines)] ==
          IF k < 2 THEN NotFound
          ELSE LET row == Entry(lines[k])
               IN  IF Len(row) >= Max({u, p, r}) /\ row[u] = name
                   THEN [password |-> row[p], role |-> row[r]]
                   ELSE from[k - 1]
    IN  from[Len(lines)]

\* The loop of get_userdata: the first row of that name, where comments, empty
\* rows and rows that are too short are passed over.
Scan(lines, name, u, p, r) ==
    LET from[k \in 1..Len(lines) + 1] ==
          IF k > Len(lines) THEN NotFound
          ELSE LET row == Entry(lines[k])
               IN  IF Len(row) >= Max({u, p, r}) /\ row[u] = name
                   THEN [password |-> row[p], role |-> row[r]]
                   ELSE from[k + 1]
    IN  from[2]

\* get_userdata of a file that exists and can be opened.
GetUserdata(file, name) ==
    LET lines == ReadLines(file)
        names == IF lines = <<>> THEN <<>> ELSE Entry(Head(lines))
        u == IndexOf(names, "username")
        p == IndexOf(names, "password")
        r == IndexOf(names, "role")
    IN  IF 0 \in {u, p, r} THEN NotFound ELSE Scan(lines, name, u, p, r)

-------------------------------------------------------------------------------
(* What the file means: a table, where the first entry of a name counts. *)

\* The value of a row in a column of the header, for rows that have it.
Cell(file, k, column) ==
    file.lines[k].cells[CHOOSE i \in DOMAIN file.lines[1].cells :
        /\ file.lines[1].cells[i] = column
        /\ \A j \in 1..i - 1 : file.lines[1].cells[j] # column]

Columns(file) == IF file.lines = <<>> THEN {} ELSE ToSet(file.lines[1].cells)

\* Lines that are whole and have all the values a user needs.  A value at the
\* end of the line counts as missing when it is empty.
Users(file) ==
    {k \in 2..Len(file.lines) :
       /\ {"username", "password", "role"} \subseteq Columns(file)
       /\ k < Len(file.lines) \/ file.newline
       /\ \A c \in {"username", "password", "role"} :
            \E i \in DOMAIN file.lines[k].cells :
               /\ file.lines[1].cells[i] = c
               /\ \A j \in 1..i - 1 : file.lines[1].cells[j] # c
               /\ i < Len(file.lines[k].cells) \/ file.lines[k].cells[i] # Empty}

FirstOf(file, name) ==
    LET mine == {k \in Users(file) : Cell(file, k, "username") = name}
    IN  IF mine = {} THEN NotFound
        ELSE LET k == Min(mine)
             IN  [password |-> Cell(file, k, "password"),
                  role |-> Cell(file, k, "role")]

===============================================================================
