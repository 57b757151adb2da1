----------------------------- MODULE MCHttpAccess -----------------------------
(* Instances of HttpAccess for TLC. *)
EXTENDS HttpAccess

Headers == {Row(<<"username", "password", "role">>),
            Row(<<"role", "username", "password">>),
            Row(<<"username", "password">>), Comment}

\* Rows of either order of columns, with one user twice, a value that is
\* empty, rows that are too short.
Lines == {Comment, Blank,
          Row(<<"ann", "pw", "admin">>), Row(<<"admin", "ann", "pw">>),
          Row(<<"ann", "pq", "user">>), Row(<<"bob", "pw", Empty>>),
          Row(<<"bob", "pq", "guest">>), Row(<<"bob", "pq">>)}

Bodies(n) == UNION {[1..k -> Lines] : k \in 0..n}

FilesOf(headers, n) ==
    {[lines |-> <<h>> \o b, newline |-> nl] : h \in headers, b \in Bodies(n), nl \in BOOLEAN}

SomeFiles == FilesOf(Headers, 1) \cup FilesOf({Row(<<"username", "password", "role">>)}, 2)
               \cup {[lines |-> <<>>, newline |-> TRUE]}

Users2 == {"ann", "bob"}
Passwords2 == {"pw", "pq"}

===============================================================================
