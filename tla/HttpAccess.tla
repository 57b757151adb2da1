------------------------------ MODULE HttpAccess ------------------------------
(***************************************************************************)
(* Who is served what (PiTvServer.cpp): server_http_handler dispatches a   *)
(* request by its URI and asks the user database for the password, and for *)
(* the role where /logs is asked for.  The file may be edited at any time, *)
(* also between the two lookups of one request.                            *)
(***************************************************************************)
EXTENDS UserDatabase

CONSTANTS Name, Password,
          Files,          \* contents the file may have
          Missing,        \* there is no file
          Unreadable      \* there is one that cannot be opened

Uri == {"/index.html", "/status", "/recordings", "/logs", "other"}
Request == [uri : Uri, user : Name \cup {Empty}, pass : Password \cup {Empty}]
NoRequest == [uri |-> "none", user |-> Empty, pass |-> Empty]

ASSUME AccessAssumption ==
    /\ Missing \notin Files /\ Unreadable \notin Files /\ Missing # Unreadable
    /\ Empty \notin Name /\ Empty \notin Password
    /\ Empty \notin {"username", "password", "role"}
    /\ \A f \in Files : IsFile(f)

VARIABLES file, pc,
          req, code,      \* the request answered last, and its answer
          edited          \* was the file edited since that request came in?

vars == <<file, pc, req, code, edited>>

State == Files \cup {Missing, Unreadable}      \* of the file

TypeOK ==
    /\ file \in State
    /\ pc \in {"poll", "role", "crashed"}
    /\ edited \in BOOLEAN
    /\ req \in Request \cup {NoRequest}
    /\ code \in {0, 200, 401, 403, 404}
    /\ pc = "role" => req.uri = "/logs" /\ code = 0

Init ==
    /\ file \in Files
    /\ pc = "poll" /\ req = NoRequest /\ code = 0 /\ edited = FALSE

-------------------------------------------------------------------------------
Lookup(name) == IF file = Missing THEN NotFound ELSE GetUserdata(file, name)

Crash(r) == pc' = "crashed" /\ req' = r /\ code' = 0

Reply(r, c) == pc' = "poll" /\ req' = r /\ code' = c

\* Seeded fault: who is not found counts as logged in.
KnownToMissing(r) ==
    LET data == Lookup(r.user)
    IN  r.user # Empty /\ r.pass # Empty /\ (data # NotFound => data.password = r.pass)

\* get_auth_username gives a name, for a file that can be opened.
Authorized(r) ==
    LET data == Lookup(r.user)
    IN  /\ r.user # Empty /\ r.pass # Empty
        /\ data # NotFound
        /\ data.password = r.pass

\* A file that cannot be opened is an exception nobody catches.
LookupThrows(r) == file = Unreadable /\ r.user # Empty /\ r.pass # Empty

Public(r) ==
    \/ r.uri \in {"/index.html", "/status"} /\ Reply(r, 200)
    \/ r.uri = "other" /\ Reply(r, 404)

Recordings(r) ==
    /\ r.uri = "/recordings"
    /\ IF LookupThrows(r) THEN Crash(r)
       ELSE Reply(r, IF Authorized(r) THEN 200 ELSE 401)

\* Seeded fault: the answer is sent before the role is known, too.
LogsEarly(r) ==
    /\ r.uri = "/logs"
    /\ \/ LookupThrows(r) /\ Crash(r)
       \/ ~LookupThrows(r) /\ Authorized(r) /\ pc' = "role" /\ req' = r /\ code' = 200
       \/ ~LookupThrows(r) /\ ~Authorized(r) /\ Reply(r, 401)

Logs(r) ==
    /\ r.uri = "/logs"
    /\ \/ LookupThrows(r) /\ Crash(r)
       \/ ~LookupThrows(r) /\ Authorized(r) /\ pc' = "role" /\ req' = r /\ code' = 0
       \/ ~LookupThrows(r) /\ ~Authorized(r) /\ Reply(r, 401)

\* server_http_handler but for /camera, which is LeaseServer.
HttpHandler ==
    /\ pc = "poll"
    /\ \E r \in Request : Public(r) \/ Recordings(r) \/ Logs(r)
    /\ edited' = FALSE
    /\ UNCHANGED file

\* Seeded fault: who is no administrator is refused only when the role is "user".
LogsRoleUser ==
    /\ pc = "role"
    /\ IF file = Unreadable \/ Lookup(req.user) = NotFound
       THEN Crash(req)
       ELSE Reply(req, IF Lookup(req.user).role = "user" THEN 403 ELSE 200)
    /\ UNCHANGED <<file, edited>>

\* The second lookup of /logs; its result is used unchecked.
LogsRole ==
    /\ pc = "role"
    /\ IF file = Unreadable \/ Lookup(req.user) = NotFound
       THEN Crash(req)
       ELSE Reply(req, IF Lookup(req.user).role = "admin" THEN 200 ELSE 403)
    /\ UNCHANGED <<file, edited>>

\* The file is written anew, removed or given other permissions; what was
\* answered before is past.
EditFile ==
    /\ pc # "crashed"
    /\ file' \in State
    /\ edited' = TRUE
    /\ IF pc = "poll" THEN req' = NoRequest /\ code' = 0 ELSE UNCHANGED <<req, code>>
    /\ UNCHANGED pc

Next == HttpHandler \/ LogsRole \/ EditFile

Spec == Init /\ [][Next]_vars

-------------------------------------------------------------------------------
(* Properties. *)

Meaning(name) == IF file \in Files THEN FirstOf(file, name) ELSE NotFound

Listed(r) == /\ r.user # Empty /\ r.pass # Empty
             /\ Meaning(r.user) # NotFound
             /\ Meaning(r.user).password = r.pass

\* The loop over the lines of the file finds what the table says, for every
\* order of columns, with comments, blanks, short rows, rows of the same name
\* and a last line without newline.
LookupMatchesTable ==
    file \in Files => \A n \in Name : GetUserdata(file, n) = FirstOf(file, n)

\* Recordings are served exactly to users the table lists with the password
\* given; logs only to those it gives the role admin when the answer is sent,
\* and 401 only to who is not listed.
RepliesMatchTable ==
    /\ req.uri = "/recordings" /\ pc = "poll" => code = IF Listed(req) THEN 200 ELSE 401
    /\ req.uri = "/logs" /\ pc = "poll" =>
         /\ code \in {200, 401, 403}
         /\ code = 200 => Meaning(req.user).role = "admin"
         /\ code = 403 => Meaning(req.user).role # "admin"
         /\ code = 401 => ~Listed(req)

\* A request ends the server only where the file could not be opened, or was
\* edited between the two lookups of /logs, of which the second is not checked:
\* never by what it asks for, who asks, or what the file says.
RequestsDoNotCrash == pc = "crashed" => edited \/ file = Unreadable

===============================================================================
