----------------------------- MODULE StreamGrants -----------------------------
(***************************************************************************)
(* What the camera server promises about its RTP streams, without saying   *)
(* how: a grant gives one endpoint one copy of the stream until its owner  *)
(* gives it up or its time is over, and the video sink sends to exactly    *)
(* the endpoints of the present grants.  LeaseServer implements this       *)
(* module with a lease table, a sweep timer and the add/remove counters    *)
(* of GStreamer's multiudpsink.                                            *)
(***************************************************************************)
EXTENDS Integers, FiniteSets

CONSTANTS User,       \* accounts of the user database
          Endpoint,   \* host:port pairs a viewer may ask the stream for
          Guid,       \* names of grants
          Limit,      \* grants one user may hold at once
          MaxTime,    \* longest time a grant lasts without a renewal
          Grace       \* how long a grant may outlive its time

VARIABLES grants,     \* grant name -> its owner, its endpoint, time left
          issued,     \* names given out so far
          copies      \* copies of the stream the sink sends to each endpoint

vars == <<grants, issued, copies>>

Held(u) == {g \in DOMAIN grants : grants[g].user = u}

\* One copy of the stream for each grant of the endpoint.
CopiesOf(w) ==
    [e \in Endpoint |-> Cardinality({g \in DOMAIN w : w[g].endpoint = e})]

Become(w) == grants' = w /\ copies' = CopiesOf(w)

Keep(S) == [g \in S |-> grants[g]]

Init ==
    /\ grants = [g \in {} |-> g]
    /\ issued = {}
    /\ copies = [e \in Endpoint |-> 0]

\* A grant gets a name that was never used before.
Grant(g, u, e, t) ==
    /\ g \notin issued
    /\ Cardinality(Held(u)) < Limit
    /\ issued' = issued \cup {g}
    /\ Become([h \in DOMAIN grants \cup {g} |->
                  IF h = g THEN [user |-> u, endpoint |-> e, left |-> t]
                           ELSE grants[h]])

\* The owner prolongs a grant, and may redirect it to another endpoint.
Renew(g, e, t) ==
    /\ Become([grants EXCEPT ![g] = [user |-> grants[g].user,
                                     endpoint |-> e, left |-> t]])
    /\ UNCHANGED issued

Release(g) ==
    /\ Become(Keep(DOMAIN grants \ {g}))
    /\ UNCHANGED issued

\* Only grants whose time is over are withdrawn, and all of them together.
Expire ==
    /\ Become(Keep({g \in DOMAIN grants : grants[g].left > 0}))
    /\ UNCHANGED issued

\* Time may not pass while a grant is at the end of its grace period.
Pass ==
    /\ \A g \in DOMAIN grants : grants[g].left > -Grace
    /\ Become([g \in DOMAIN grants |->
                  [grants[g] EXCEPT !.left = @ - 1]])
    /\ UNCHANGED issued

Next ==
    \/ \E g \in Guid, u \in User, e \in Endpoint, t \in 1..MaxTime :
          Grant(g, u, e, t)
    \/ \E g \in DOMAIN grants :
          \/ Release(g)
          \/ \E e \in Endpoint, t \in 1..MaxTime : Renew(g, e, t)
    \/ Expire
    \/ Pass

Spec == Init /\ [][Next]_vars

===============================================================================
