--------------------------- MODULE LeaseServerProofs ---------------------------
(***************************************************************************)
(* Theorems about LeaseServer for every set of users and endpoints, every  *)
(* limit, every timer period and every bound on the guids.                 *)
(***************************************************************************)
EXTENDS LeaseServer, FiniteSetTheorems, TLAPS

USE UserAssumption, TimeAssumption, LimitAssumption, SinkAssumption

-------------------------------------------------------------------------------
(* Types. *)

\* A lease put into the table keeps it a function from guids to leases.
LEMMA WithLeaseType ==
    ASSUME TypeOK, NEW g \in Nat, NEW entry \in Lease
    PROVE  /\ DOMAIN WithLease(g, entry) = DOMAIN lease_map \cup {g}
           /\ WithLease(g, entry) \in [DOMAIN lease_map \cup {g} -> Lease]
           /\ WithLease(g, entry)[g] = entry
           /\ \A h \in DOMAIN lease_map :
                h # g => WithLease(g, entry)[h] = lease_map[h]
  BY DEF TypeOK, WithLease

\* Taking leases out keeps the others as they are.
LEMMA WithoutLeasesType ==
    ASSUME TypeOK, NEW S
    PROVE  /\ DOMAIN WithoutLeases(S) = DOMAIN lease_map \ S
           /\ WithoutLeases(S) \in [DOMAIN lease_map \ S -> Lease]
           /\ \A h \in DOMAIN lease_map \ S : WithoutLeases(S)[h] = lease_map[h]
  BY DEF TypeOK, WithoutLeases

\* An accepted lease request describes a lease of positive, clamped time.
LEMMA RequestedLease ==
    ASSUME NEW rq \in Request, Accepted(rq), rq.lease_time # 0
    PROVE  /\ rq.user \in User
           /\ rq.guid \in Guid \cup {EmptyGuid}
           /\ LeaseOf(rq) \in Lease
           /\ LeaseOf(rq).left \in 1..max_lease_time
           /\ LeaseOf(rq).user = rq.user
           /\ LeaseOf(rq).endpoint = rq.endpoint
  <1>1. /\ rq.user \in User /\ rq.endpoint \in Endpoint
        /\ rq.guid \in Guid \cup {EmptyGuid}
        /\ rq.lease_time \in Int /\ rq.lease_time > 0
    <2>1. /\ rq.user # NoUser /\ rq.guid # MissingGuid
          /\ rq.lease_time >= 0 /\ rq.endpoint # NoEndpoint
      BY DEF Accepted, WellFormed
    <2>2. rq.lease_time \in Int
      BY DEF Request, NoPost
    <2> QED
      BY <2>1, <2>2 DEF Request, NoPost
  <1>2. ClampedTime(rq.lease_time) \in 1..max_lease_time
    BY <1>1 DEF ClampedTime
  <1> QED
    BY <1>1, <1>2 DEF LeaseOf, Lease

\* Adding and removing endpoints keeps the counters natural numbers.
LEMMA SinkType ==
    ASSUME TypeOK
    PROVE  /\ \A e \in Endpoint, found \in BOOLEAN :
                 RtpAdd(sink, e, found) \in [Endpoint -> Nat]
           /\ \A e \in Endpoint, found \in BOOLEAN :
                 RtpRemove(sink, e, found) \in [Endpoint -> Nat]
           /\ \A d \in Endpoint, e \in Endpoint, f \in BOOLEAN, h \in BOOLEAN :
                 RtpChange(sink, d, e, f, h) \in [Endpoint -> Nat]
  BY DEF TypeOK, RtpAdd, RtpRemove, RtpChange, Added, Removed

\* The leases in the table, and any selection of them, are finitely many.
LEMMA FiniteLeases ==
    ASSUME TypeOK, NEW S, S \subseteq DOMAIN lease_map
    PROVE  IsFiniteSet(S) /\ Cardinality(S) \in Nat
  <1>1. IsFiniteSet(1..generated)
    <2>1. generated \in Int
      BY DEF TypeOK
    <2> QED BY <2>1, FS_Interval
  <1>2. S \subseteq 1..generated
    BY DEF TypeOK
  <1> QED
    BY <1>1, <1>2, FS_Subset, FS_CardinalityType

LEMMA SweepType ==
    ASSUME TypeOK, NEW S, S \subseteq DOMAIN lease_map
    PROVE  RtpRemoveAll(sink, S) \in [Endpoint -> Nat]
  <1>1. ASSUME NEW e \in Endpoint
        PROVE  Cardinality({g \in S : lease_map[g].endpoint = e}) \in Nat
    BY FiniteLeases
  <1> QED
    BY <1>1 DEF RtpRemoveAll, TypeOK

LEMMA InitType == Init => TypeOK
  BY DEF Init, TypeOK, NoReply, Reply, MissingGuid

\* Every step keeps the types.
LEMMA NextType == TypeOK /\ [Next]_vars => TypeOK'
  <1> SUFFICES ASSUME TypeOK, [Next]_vars PROVE TypeOK'
    OBVIOUS
  <1>1. ASSUME NEW rq \in Request, RefuseRequest(rq) PROVE TypeOK'
    BY <1>1 DEF TypeOK, RefuseRequest, Respond, Reply, Request, NoPost
  <1>2. ASSUME NEW rq \in Request, LeaseCamera(rq) PROVE TypeOK'
    <2>1. Accepted(rq) /\ rq.lease_time # 0
      BY <1>2 DEF LeaseCamera
    <2>2. CASE LeaseLimitReached(rq)
      BY <2>1, <2>2, RequestedLease
         DEF TypeOK, LeaseLimitReached, EnterUser, Respond, Reply, EmptyGuid
    <2>3. CASE NewLease(rq)
      <3> USE <2>1, <2>3, RequestedLease
      <3>1. PICK found \in BOOLEAN :
               /\ sink' = RtpAdd(sink, rq.endpoint, found)
               /\ IF found
                  THEN /\ lease_map' = WithLease(generated + 1, LeaseOf(rq))
                       /\ Respond(rq, "lease", 200, generated + 1)
                  ELSE /\ Respond(rq, "lease", 500, rq.guid)
                       /\ UNCHANGED lease_map
        BY DEF NewLease
      <3>2. /\ generated' = generated + 1 /\ generated' \in 1..MaxGuids
            /\ generated \in Nat /\ timer_left' = timer_left
        BY DEF NewLease, TypeOK
      <3>3. user_map' \subseteq User
        BY DEF NewLease, EnterUser, TypeOK
      <3>4. sink' \in [Endpoint -> Nat]
        <4>1. rq.endpoint \in Endpoint
          BY DEF LeaseOf, Lease
        <4> QED BY <4>1, <3>1, SinkType
      <3>5. CASE found
        <4>1. /\ DOMAIN lease_map' \subseteq 1..generated'
              /\ lease_map' \in [DOMAIN lease_map' -> Lease]
          <5>1. lease_map' = WithLease(generated + 1, LeaseOf(rq))
            BY <3>1, <3>5
          <5>2. generated + 1 \in Nat /\ LeaseOf(rq) \in Lease
            BY <3>2
          <5> DEFINE new == WithLease(generated + 1, LeaseOf(rq))
          <5>3. /\ DOMAIN new = DOMAIN lease_map \cup {generated + 1}
                /\ new \in [DOMAIN lease_map \cup {generated + 1} -> Lease]
            BY ONLY <5>2, TypeOK, WithLeaseType
          <5>4. DOMAIN new \subseteq 1..generated'
            BY <3>2, <5>3 DEF TypeOK
          <5> HIDE DEF new
          <5> QED BY ONLY <5>1, <5>3, <5>4 DEF new
        <4>2. reply' \in Reply
          BY <3>1, <3>2, <3>5 DEF Respond, Reply, Guid
        <4> QED
          BY <3>2, <3>3, <3>4, <4>1, <4>2 DEF TypeOK
      <3>6. CASE ~found
        BY <3>1, <3>2, <3>3, <3>4, <3>6 DEF TypeOK, Respond, Reply, Guid
      <3> QED BY <3>5, <3>6
    <2>4. CASE RenewUnknown(rq)
      BY <2>1, <2>4, RequestedLease
         DEF TypeOK, RenewUnknown, EnterUser, Respond, Reply
    <2>5. CASE RenewLease(rq)
      <3> USE <2>1, <2>5, RequestedLease
      <3>1. rq.guid \in DOMAIN lease_map /\ rq.guid \in Nat
        BY DEF RenewLease, Held, TypeOK
      <3>2. lease_map' \in [DOMAIN lease_map -> Lease]
            /\ DOMAIN lease_map' = DOMAIN lease_map
        <4>1. lease_map' = WithLease(rq.guid, LeaseOf(rq))
          BY DEF RenewLease
        <4>2. DOMAIN lease_map \cup {rq.guid} = DOMAIN lease_map
          BY <3>1
        <4> QED BY <3>1, <4>1, <4>2, WithLeaseType
      <3>3. sink' \in [Endpoint -> Nat]
        <4>1. rq.endpoint \in Endpoint /\ lease_map[rq.guid].endpoint \in Endpoint
          BY <3>1 DEF LeaseOf, Lease, TypeOK
        <4> QED BY <4>1, SinkType DEF RenewLease, TypeOK
      <3> QED
        BY <3>1, <3>2, <3>3 DEF TypeOK, RenewLease, EnterUser, Respond, Reply
    <2> QED
      BY <1>2, <2>2, <2>3, <2>4, <2>5 DEF LeaseCamera
  <1>3. ASSUME NEW rq \in Request, EndCameraLease(rq) PROVE TypeOK'
    <2>1. /\ UNCHANGED <<user_map, generated, timer_left>>
          /\ rq.user \in User
          /\ rq.guid \in Guid \cup {EmptyGuid}
      BY <1>3 DEF EndCameraLease, Accepted, WellFormed, Request, NoPost
    <2>2. CASE EndUnknownUser(rq)
      BY <2>1, <2>2 DEF TypeOK, EndUnknownUser, Respond, Reply
    <2>3. CASE EndNoLease(rq)
      BY <2>1, <2>3 DEF TypeOK, EndNoLease, Respond, Reply
    <2>4. CASE EndLease(rq)
      <3>1. rq.guid \in DOMAIN lease_map
        BY <2>4 DEF EndLease, Held
      <3>2. lease_map[rq.guid].endpoint \in Endpoint
        BY <3>1 DEF TypeOK, Lease
      <3>3. sink' \in [Endpoint -> Nat]
        BY <2>4, <3>2, SinkType DEF EndLease
      <3>4. /\ lease_map' \in [DOMAIN lease_map' -> Lease]
            /\ DOMAIN lease_map' \subseteq DOMAIN lease_map
        <4>1. lease_map' = WithoutLeases({rq.guid})
          BY <2>4 DEF EndLease
        <4>2. /\ DOMAIN WithoutLeases({rq.guid}) = DOMAIN lease_map \ {rq.guid}
              /\ WithoutLeases({rq.guid}) \in [DOMAIN lease_map \ {rq.guid} -> Lease]
          BY WithoutLeasesType
        <4> QED BY <4>1, <4>2
      <3>5. reply' \in Reply
        BY <2>1, <2>4 DEF EndLease, Respond, Reply
      <3> QED
        BY <2>1, <3>3, <3>4, <3>5 DEF TypeOK
    <2> QED
      BY <1>3, <2>2, <2>3, <2>4 DEF EndCameraLease
  <1>4. CASE TimerFn
    <2>1. PICK missed \in SUBSET Expired :
             sink' = RtpRemoveAll(sink, Expired \ missed)
      BY <1>4 DEF TimerFn
    <2>2. sink' \in [Endpoint -> Nat]
      BY <2>1, SweepType DEF Expired
    <2>3. /\ lease_map' \in [DOMAIN lease_map' -> Lease]
          /\ DOMAIN lease_map' \subseteq DOMAIN lease_map
      BY <1>4, WithoutLeasesType DEF TimerFn
    <2>4. timer_left' \in -PollSlack..TimerPeriod
      BY <1>4 DEF TimerFn, Rearmed, TypeOK
    <2> QED
      BY <1>4, <2>2, <2>3, <2>4
         DEF TypeOK, TimerFn, NoReply, Reply, MissingGuid
  <1>5. CASE Tick
    <2>1. /\ DOMAIN lease_map' = DOMAIN lease_map
          /\ lease_map' \in [DOMAIN lease_map -> Lease]
      BY <1>5 DEF Tick, TypeOK, Lease
    <2> QED
      BY <1>5, <2>1 DEF TypeOK, Tick, NoReply, Reply, MissingGuid
  <1>6. CASE UNCHANGED vars
    BY <1>6 DEF vars, TypeOK
  <1> QED
    BY <1>1, <1>2, <1>3, <1>4, <1>5, <1>6 DEF Next, OnPitvRequest

\* Type correctness: in particular guids are only ever those handed out.
THEOREM TypeCorrect == Spec => []TypeOK
  BY InitType, NextType, PTL DEF Spec

-------------------------------------------------------------------------------
(* What the actions do to the lease table. *)

LEMMA NewLeaseEffect ==
    ASSUME TypeOK, NEW rq \in Request, Accepted(rq), rq.lease_time # 0,
           lease_map' = WithLease(generated + 1, LeaseOf(rq))
    PROVE  /\ generated + 1 \in Nat
           /\ generated + 1 \notin DOMAIN lease_map
           /\ DOMAIN lease_map' = DOMAIN lease_map \cup {generated + 1}
           /\ lease_map'[generated + 1] = LeaseOf(rq)
           /\ \A h \in DOMAIN lease_map : lease_map'[h] = lease_map[h]
  <1>1. generated + 1 \in Nat /\ generated + 1 \notin DOMAIN lease_map
    BY DEF TypeOK
  <1>2. LeaseOf(rq) \in Lease
    BY RequestedLease
  <1>3. /\ DOMAIN WithLease(generated + 1, LeaseOf(rq))
              = DOMAIN lease_map \cup {generated + 1}
        /\ WithLease(generated + 1, LeaseOf(rq))[generated + 1] = LeaseOf(rq)
        /\ \A h \in DOMAIN lease_map : h # generated + 1 =>
              WithLease(generated + 1, LeaseOf(rq))[h] = lease_map[h]
    BY ONLY <1>1, <1>2, TypeOK, WithLeaseType
  <1> QED
    BY <1>1, <1>3

LEMMA RenewLeaseEffect ==
    ASSUME TypeOK, NEW rq \in Request, Accepted(rq), rq.lease_time # 0,
           RenewLease(rq)
    PROVE  /\ rq.guid \in DOMAIN lease_map
           /\ lease_map[rq.guid].user = rq.user
           /\ DOMAIN lease_map' = DOMAIN lease_map
           /\ lease_map'[rq.guid] = LeaseOf(rq)
           /\ \A h \in DOMAIN lease_map :
                 h # rq.guid => lease_map'[h] = lease_map[h]
  <1>1. /\ rq.guid \in DOMAIN lease_map /\ lease_map[rq.guid].user = rq.user
        /\ rq.guid \in Nat
    BY DEF RenewLease, Held, TypeOK
  <1>2. LeaseOf(rq) \in Lease
    BY RequestedLease
  <1>3. /\ DOMAIN WithLease(rq.guid, LeaseOf(rq)) = DOMAIN lease_map \cup {rq.guid}
        /\ WithLease(rq.guid, LeaseOf(rq))[rq.guid] = LeaseOf(rq)
        /\ \A h \in DOMAIN lease_map : h # rq.guid =>
              WithLease(rq.guid, LeaseOf(rq))[h] = lease_map[h]
    BY ONLY <1>1, <1>2, TypeOK, WithLeaseType
  <1>4. lease_map' = WithLease(rq.guid, LeaseOf(rq))
    BY DEF RenewLease
  <1> QED
    BY <1>1, <1>3, <1>4

LEMMA TickEffect ==
    ASSUME TypeOK, Tick
    PROVE  /\ DOMAIN lease_map' = DOMAIN lease_map
           /\ \A h \in DOMAIN lease_map :
                 /\ lease_map'[h].user = lease_map[h].user
                 /\ lease_map'[h].endpoint = lease_map[h].endpoint
                 /\ lease_map'[h].left = lease_map[h].left - 1
  BY DEF Tick, TypeOK, Lease

-------------------------------------------------------------------------------
(* The limit of leases per user. *)

\* A step that gives no user a further lease keeps the limit.
LEMMA FewerLeases ==
    ASSUME TypeOK, LeaseLimit, \A u \in User : Held(u)' \subseteq Held(u)
    PROVE  LeaseLimit'
  <1>1. ASSUME NEW u \in User
        PROVE  Cardinality(Held(u)') <= user_max_leases
    <2>1. IsFiniteSet(Held(u)) /\ Cardinality(Held(u)) \in Nat
      BY FiniteLeases DEF Held
    <2>2. IsFiniteSet(Held(u)') /\ Cardinality(Held(u)') <= Cardinality(Held(u))
      BY <2>1, FS_Subset
    <2>3. Cardinality(Held(u)') \in Nat
      BY <2>2, FS_CardinalityType
    <2> QED
      BY <2>1, <2>2, <2>3 DEF LeaseLimit
  <1> QED
    BY <1>1 DEF LeaseLimit

LEMMA NextLimit == TypeOK /\ LeaseLimit /\ [Next]_vars => LeaseLimit'
  <1> SUFFICES ASSUME TypeOK, LeaseLimit, [Next]_vars PROVE LeaseLimit'
    OBVIOUS
  <1>1. CASE UNCHANGED lease_map
    BY <1>1 DEF LeaseLimit, Held
  <1>2. ASSUME NEW S, lease_map' = WithoutLeases(S) PROVE LeaseLimit'
    <2>1. /\ DOMAIN lease_map' = DOMAIN lease_map \ S
          /\ \A h \in DOMAIN lease_map \ S : lease_map'[h] = lease_map[h]
      BY <1>2, WithoutLeasesType
    <2>2. \A u \in User : Held(u)' \subseteq Held(u)
      BY <2>1 DEF Held
    <2> QED
      BY <2>2, FewerLeases
  <1>3. ASSUME NEW rq \in Request, LeaseCamera(rq) PROVE LeaseLimit'
    <2>1. Accepted(rq) /\ rq.lease_time # 0
      BY <1>3 DEF LeaseCamera
    <2>2. CASE NewLease(rq) /\ ~UNCHANGED lease_map
      <3>1. lease_map' = WithLease(generated + 1, LeaseOf(rq))
        BY <2>2 DEF NewLease
      <3>2. ASSUME NEW u \in User
            PROVE  Held(u)' = IF u = rq.user THEN Held(u) \cup {generated + 1}
                                             ELSE Held(u)
        BY <2>1, <3>1, NewLeaseEffect, RequestedLease DEF Held
      <3>3. ASSUME NEW u \in User
            PROVE  Cardinality(Held(u)') <= user_max_leases
        <4>1. IsFiniteSet(Held(u)) /\ Cardinality(Held(u)) \in Nat
          BY FiniteLeases DEF Held
        <4>2. CASE u = rq.user
          <5>1. Held(u)' = Held(u) \cup {generated + 1}
            BY <3>2, <4>2
          <5>2. /\ IsFiniteSet(Held(u)')
                /\ \/ Cardinality(Held(u)') = Cardinality(Held(u))
                   \/ Cardinality(Held(u)') = Cardinality(Held(u)) + 1
            BY <4>1, <5>1, FS_AddElement
          <5>3. Cardinality(Held(u)) < user_max_leases
            BY <2>2, <4>1, <4>2 DEF NewLease, AtLimit
          <5> QED BY <4>1, <5>2, <5>3
        <4>3. CASE u # rq.user
          BY <3>2, <4>3 DEF LeaseLimit
        <4> QED BY <4>2, <4>3
      <3> QED
        BY <3>3 DEF LeaseLimit
    <2>3. CASE RenewLease(rq)
      <3>1. \A u \in User : Held(u)' \subseteq Held(u)
        BY <2>1, <2>3, RenewLeaseEffect, RequestedLease DEF Held
      <3> QED
        BY <3>1, FewerLeases
    <2> QED
      BY <1>1, <1>3, <2>2, <2>3
         DEF LeaseCamera, LeaseLimitReached, RenewUnknown
  <1>4. ASSUME NEW rq \in Request, EndCameraLease(rq) PROVE LeaseLimit'
    BY <1>1, <1>2, <1>4
       DEF EndCameraLease, EndUnknownUser, EndNoLease, EndLease
  <1>5. CASE TimerFn
    BY <1>2, <1>5 DEF TimerFn
  <1>6. CASE Tick
    <2>1. \A u \in User : Held(u)' \subseteq Held(u)
      BY <1>6, TickEffect DEF Held
    <2> QED
      BY <2>1, FewerLeases
  <1> QED
    BY <1>1, <1>3, <1>4, <1>5, <1>6
       DEF Next, OnPitvRequest, RefuseRequest, vars

\* No user ever holds more leases than allowed (lease_camera, end_camera_lease
\* and timer_fn together).
THEOREM LimitKept == Spec => []LeaseLimit
  <1>1. Init => LeaseLimit
    <2> SUFFICES ASSUME Init, NEW u \in User
                 PROVE  Cardinality(Held(u)) <= user_max_leases
      BY DEF LeaseLimit
    <2>1. Held(u) = {}
      BY DEF Init, Held
    <2> QED
      BY <2>1, FS_EmptySet
  <1> QED
    BY <1>1, InitType, NextType, NextLimit, PTL DEF Spec

-------------------------------------------------------------------------------
(* The time a lease may last. *)

\* Inductive form of LeaseWithinWindow: a lease whose time is over is at most
\* as old as the timer period that is running, because the last sweep took
\* every lease that had no time left then.
SweptInTime ==
    \A g \in DOMAIN lease_map :
        /\ lease_map[g].left <= max_lease_time
        /\ lease_map[g].left > timer_left - TimerPeriod

LEMMA NextSwept == TypeOK /\ SweptInTime /\ [Next]_vars => SweptInTime'
  <1> SUFFICES ASSUME TypeOK, SweptInTime, [Next]_vars PROVE SweptInTime'
    OBVIOUS
  <1> USE DEF SweptInTime
  <1>1. CASE UNCHANGED <<lease_map, timer_left>>
    BY <1>1
  <1>2. ASSUME NEW S, lease_map' = WithoutLeases(S), UNCHANGED timer_left
        PROVE  SweptInTime'
    <2>1. /\ DOMAIN lease_map' = DOMAIN lease_map \ S
          /\ \A h \in DOMAIN lease_map \ S : lease_map'[h] = lease_map[h]
      BY <1>2, WithoutLeasesType
    <2> QED
      BY <1>2, <2>1
  <1>3. ASSUME NEW rq \in Request, LeaseCamera(rq) PROVE SweptInTime'
    <2>1. /\ Accepted(rq) /\ rq.lease_time # 0
          /\ LeaseOf(rq).left \in 1..max_lease_time
      BY <1>3, RequestedLease DEF LeaseCamera
    <2>2. timer_left' = timer_left /\ timer_left \in -PollSlack..TimerPeriod
      BY <1>3 DEF LeaseCamera, LeaseLimitReached, NewLease, RenewUnknown,
                  RenewLease, TypeOK
    <2>3. CASE NewLease(rq) /\ ~UNCHANGED lease_map
      <3>1. lease_map' = WithLease(generated + 1, LeaseOf(rq))
        BY <2>3 DEF NewLease
      <3> QED
        BY <2>1, <2>2, <3>1, NewLeaseEffect
    <2>4. CASE RenewLease(rq)
      BY <2>1, <2>2, <2>4, RenewLeaseEffect
    <2> QED
      BY <1>1, <1>3, <2>2, <2>3, <2>4
         DEF LeaseCamera, LeaseLimitReached, RenewUnknown
  <1>4. ASSUME NEW rq \in Request, EndCameraLease(rq) PROVE SweptInTime'
    BY <1>1, <1>2, <1>4
       DEF EndCameraLease, EndUnknownUser, EndNoLease, EndLease
  <1>5. CASE TimerFn
    <2>1. /\ DOMAIN lease_map' = DOMAIN lease_map \ Expired
          /\ \A h \in DOMAIN lease_map \ Expired : lease_map'[h] = lease_map[h]
      BY <1>5, WithoutLeasesType DEF TimerFn
    <2>2. \A h \in DOMAIN lease_map' : lease_map'[h].left \in Int
                                       /\ lease_map'[h].left > 0
      BY <2>1 DEF Expired, TypeOK, Lease
    <2>3. timer_left' \in Int /\ timer_left' <= TimerPeriod
      BY <1>5 DEF TimerFn, Rearmed, TypeOK
    <2> QED
      BY <2>1, <2>2, <2>3
  <1>6. CASE Tick
    <2>1. timer_left \in Int /\ timer_left' = timer_left - 1
      BY <1>6 DEF Tick, TypeOK
    <2>2. \A h \in DOMAIN lease_map : lease_map[h].left \in Int
      BY DEF TypeOK, Lease
    <2> QED
      BY <1>6, <2>1, <2>2, TickEffect
  <1> QED
    BY <1>1, <1>3, <1>4, <1>5, <1>6
       DEF Next, OnPitvRequest, RefuseRequest, vars

\* A lease lasts at most max_lease_time, and is gone at the latest a timer
\* period and a late poll after its time is over.
THEOREM WindowKept == Spec => []LeaseWithinWindow
  <1>1. Init => SweptInTime
    BY DEF Init, SweptInTime
  <1>2. TypeOK /\ SweptInTime => LeaseWithinWindow
    <2> SUFFICES ASSUME TypeOK, SweptInTime, NEW g \in DOMAIN lease_map
                 PROVE  /\ lease_map[g].left <= max_lease_time
                        /\ lease_map[g].left > -(TimerPeriod + PollSlack)
      BY DEF LeaseWithinWindow
    <2>1. lease_map[g].left \in Int /\ timer_left \in Int /\ timer_left >= -PollSlack
      BY DEF TypeOK, Lease
    <2> QED
      BY <2>1 DEF SweptInTime
  <1> QED
    BY <1>1, <1>2, InitType, NextType, NextSwept, PTL DEF Spec

-------------------------------------------------------------------------------
(* The counters of the sink. *)

\* A step that leaves every lease where it was, and the sink, keeps them equal.
LEMMA SameEndpoints ==
    ASSUME SinkMatchesLeases, UNCHANGED sink,
           DOMAIN lease_map' = DOMAIN lease_map,
           \A h \in DOMAIN lease_map :
              lease_map'[h].endpoint = lease_map[h].endpoint
    PROVE  SinkMatchesLeases'
  <1>1. \A e \in Endpoint : Leased(e)' = Leased(e)
    BY DEF Leased
  <1> QED
    BY <1>1 DEF SinkMatchesLeases

\* Ending the leases of a set takes their copies off the sink.
LEMMA EndedLeases ==
    ASSUME TypeOK, SinkMatchesLeases, NEW S, S \subseteq DOMAIN lease_map,
           lease_map' = WithoutLeases(S), sink' = RtpRemoveAll(sink, S)
    PROVE  SinkMatchesLeases'
  <1> SUFFICES ASSUME NEW e \in Endpoint
               PROVE  sink'[e] = Cardinality(Leased(e)')
    BY DEF SinkMatchesLeases
  <1> DEFINE T == {g \in S : lease_map[g].endpoint = e}
  <1>1. Leased(e)' = Leased(e) \ T
    <2>1. /\ DOMAIN lease_map' = DOMAIN lease_map \ S
          /\ \A h \in DOMAIN lease_map \ S : lease_map'[h] = lease_map[h]
      BY WithoutLeasesType
    <2> QED
      BY <2>1 DEF Leased
  <1>2. T \subseteq Leased(e)
    BY DEF Leased
  <1>3. IsFiniteSet(Leased(e)) /\ Cardinality(Leased(e)) \in Nat
    BY FiniteLeases DEF Leased
  <1>4. IsFiniteSet(T) /\ Cardinality(T) \in Nat
    BY FiniteLeases
  <1>5. Cardinality(T) <= Cardinality(Leased(e))
    BY <1>2, <1>3, FS_Subset
  <1>6. Leased(e) \cap T = T
    BY <1>2
  <1>7. Cardinality(Leased(e) \ T) = Cardinality(Leased(e)) - Cardinality(T)
    BY <1>3, <1>6, FS_Difference
  <1>8. sink'[e] = IF sink[e] >= Cardinality(T) THEN sink[e] - Cardinality(T)
                                                 ELSE 0
    BY DEF RtpRemoveAll
  <1>9. sink[e] = Cardinality(Leased(e))
    BY DEF SinkMatchesLeases
  <1> HIDE DEF T
  <1> QED
    BY <1>1, <1>3, <1>4, <1>5, <1>7, <1>8, <1>9

\* A new lease adds one copy for its endpoint.
LEMMA NewLeaseSink ==
    ASSUME TypeOK, SinkMatchesLeases, SinkLookup = {TRUE},
           NEW rq \in Request, Accepted(rq), rq.lease_time # 0, NewLease(rq)
    PROVE  SinkMatchesLeases'
  <1> SUFFICES ASSUME NEW e \in Endpoint
               PROVE  sink'[e] = Cardinality(Leased(e)')
    BY DEF SinkMatchesLeases
  <1>1. /\ lease_map' = WithLease(generated + 1, LeaseOf(rq))
        /\ sink' = [sink EXCEPT ![rq.endpoint] = @ + 1]
    BY DEF NewLease, RtpAdd, Added
  <1>2. /\ generated + 1 \notin Leased(e)
        /\ Leased(e)' = IF e = rq.endpoint THEN Leased(e) \cup {generated + 1}
                                           ELSE Leased(e)
    BY <1>1, NewLeaseEffect, RequestedLease DEF Leased
  <1>3. IsFiniteSet(Leased(e))
    BY FiniteLeases DEF Leased
  <1>4. sink[e] = Cardinality(Leased(e))
    BY DEF SinkMatchesLeases
  <1>5. CASE e = rq.endpoint
    <2>1. Leased(e)' = Leased(e) \cup {generated + 1}
      BY <1>2, <1>5
    <2>2. Cardinality(Leased(e)') = Cardinality(Leased(e)) + 1
      BY <1>2, <1>3, <2>1, FS_AddElement
    <2>3. sink'[e] = sink[e] + 1
      BY <1>1, <1>5 DEF TypeOK
    <2> QED
      BY <1>4, <2>2, <2>3
  <1>6. CASE e # rq.endpoint
    BY <1>1, <1>2, <1>4, <1>6 DEF TypeOK
  <1> QED
    BY <1>5, <1>6

\* A renewal with another endpoint moves one copy.
LEMMA MovedLeaseSink ==
    ASSUME TypeOK, SinkMatchesLeases, SinkLookup = {TRUE},
           NEW rq \in Request, Accepted(rq), rq.lease_time # 0, RenewLease(rq),
           lease_map[rq.guid].endpoint # rq.endpoint
    PROVE  SinkMatchesLeases'
  <1> DEFINE g == rq.guid
             old == lease_map[g].endpoint
  <1>1. /\ g \in DOMAIN lease_map /\ DOMAIN lease_map' = DOMAIN lease_map
        /\ lease_map'[g].endpoint = rq.endpoint
        /\ \A h \in DOMAIN lease_map : h # g => lease_map'[h] = lease_map[h]
    BY RenewLeaseEffect, RequestedLease
  <1>2. old \in Endpoint /\ rq.endpoint \in Endpoint /\ rq.endpoint # old
    BY <1>1 DEF TypeOK, Lease, Request, NoPost, Accepted, WellFormed
  <1>3. sink' = RtpChange(sink, old, rq.endpoint, TRUE, TRUE)
    BY DEF RenewLease
  <1> HIDE DEF g, old
  <1> SUFFICES ASSUME NEW e \in Endpoint
               PROVE  sink'[e] = Cardinality(Leased(e)')
    BY DEF SinkMatchesLeases
  <1>4. IsFiniteSet(Leased(e)) /\ Cardinality(Leased(e)) \in Nat
    BY FiniteLeases DEF Leased
  <1>5. sink[e] = Cardinality(Leased(e))
    BY DEF SinkMatchesLeases
  <1>6. sink'[e] = IF e = rq.endpoint THEN sink[e] + 1
                   ELSE IF e = old THEN IF sink[e] > 0 THEN sink[e] - 1 ELSE 0
                   ELSE sink[e]
    BY <1>2, <1>3 DEF RtpChange, RtpAdd, RtpRemove, Added, Removed, TypeOK
  <1>7. CASE e = rq.endpoint
    <2>1. g \notin Leased(e) /\ Leased(e)' = Leased(e) \cup {g}
      BY <1>1, <1>2, <1>7 DEF Leased, old
    <2>2. Cardinality(Leased(e)') = Cardinality(Leased(e)) + 1
      BY <1>4, <2>1, FS_AddElement
    <2> QED
      BY <1>5, <1>6, <1>7, <2>2
  <1>8. CASE e = old
    <2>1. g \in Leased(e) /\ Leased(e)' = Leased(e) \ {g}
      BY <1>1, <1>2, <1>8 DEF Leased, old
    <2>2. /\ Cardinality(Leased(e)') = Cardinality(Leased(e)) - 1
          /\ IsFiniteSet(Leased(e)')
      BY <1>4, <2>1, FS_RemoveElement
    <2>3. Cardinality(Leased(e)') \in Nat
      BY <2>2, FS_CardinalityType
    <2> QED
      BY <1>2, <1>4, <1>5, <1>6, <1>8, <2>2, <2>3
  <1>9. CASE e # rq.endpoint /\ e # old
    <2>1. Leased(e)' = Leased(e)
      BY <1>1, <1>9 DEF Leased, old
    <2> QED
      BY <1>5, <1>6, <1>9, <2>1
  <1> QED
    BY <1>7, <1>8, <1>9

LEMMA NextSink ==
    ASSUME SinkLookup = {TRUE}
    PROVE  TypeOK /\ SinkMatchesLeases /\ [Next]_vars => SinkMatchesLeases'
  <1> SUFFICES ASSUME TypeOK, SinkMatchesLeases, [Next]_vars
               PROVE  SinkMatchesLeases'
    OBVIOUS
  <1>1. CASE UNCHANGED <<lease_map, sink>>
    BY <1>1, SameEndpoints
  <1>2. ASSUME NEW rq \in Request, LeaseCamera(rq) PROVE SinkMatchesLeases'
    <2>1. Accepted(rq) /\ rq.lease_time # 0
      BY <1>2 DEF LeaseCamera
    <2>2. CASE NewLease(rq)
      BY <2>1, <2>2, NewLeaseSink
    <2>3. CASE RenewLease(rq)
      <3>1. CASE lease_map[rq.guid].endpoint = rq.endpoint
        <4>1. UNCHANGED sink
          BY <2>3, <3>1 DEF RenewLease
        <4>2. /\ DOMAIN lease_map' = DOMAIN lease_map
              /\ lease_map'[rq.guid] = LeaseOf(rq)
              /\ \A h \in DOMAIN lease_map : h # rq.guid => lease_map'[h] = lease_map[h]
          BY <2>1, <2>3, RenewLeaseEffect
        <4>3. LeaseOf(rq).endpoint = rq.endpoint
          BY DEF LeaseOf
        <4> QED BY <3>1, <4>1, <4>2, <4>3, SameEndpoints
      <3>2. CASE lease_map[rq.guid].endpoint # rq.endpoint
        BY <2>1, <2>3, <3>2, MovedLeaseSink
      <3> QED BY <3>1, <3>2
    <2> QED
      BY <1>1, <1>2, <2>2, <2>3 DEF LeaseCamera, LeaseLimitReached, RenewUnknown
  <1>3. ASSUME NEW rq \in Request, EndCameraLease(rq) PROVE SinkMatchesLeases'
    <2>1. CASE EndLease(rq)
      <3>1. rq.guid \in DOMAIN lease_map /\ lease_map[rq.guid].endpoint \in Endpoint
        BY <2>1 DEF EndLease, Held, TypeOK, Lease
      <3>2. sink' = Removed(sink, lease_map[rq.guid].endpoint)
        BY <2>1 DEF EndLease, RtpRemove
      <3>3. sink' = RtpRemoveAll(sink, {rq.guid})
        <4>1. ASSUME NEW e \in Endpoint
              PROVE  Cardinality({g \in {rq.guid} : lease_map[g].endpoint = e})
                       = IF lease_map[rq.guid].endpoint = e THEN 1 ELSE 0
          <5>1. CASE lease_map[rq.guid].endpoint = e
            <6>1. {g \in {rq.guid} : lease_map[g].endpoint = e} = {rq.guid}
              BY <5>1
            <6> QED BY <5>1, <6>1, FS_Singleton
          <5>2. CASE lease_map[rq.guid].endpoint # e
            <6>1. {g \in {rq.guid} : lease_map[g].endpoint = e} = {}
              BY <5>2
            <6> QED BY <5>2, <6>1, FS_EmptySet
          <5> QED BY <5>1, <5>2
        <4>2. ASSUME NEW e \in Endpoint
              PROVE  Removed(sink, lease_map[rq.guid].endpoint)[e]
                       = RtpRemoveAll(sink, {rq.guid})[e]
          <5>1. sink[e] \in Nat
            BY DEF TypeOK
          <5> QED BY <3>1, <4>1, <5>1 DEF Removed, RtpRemoveAll, TypeOK
        <4> QED BY <3>1, <3>2, <4>2 DEF Removed, RtpRemoveAll, TypeOK
      <3> QED
        BY <2>1, <3>1, <3>3, EndedLeases DEF EndLease
    <2> QED
      BY <1>1, <1>3, <2>1 DEF EndCameraLease, EndUnknownUser, EndNoLease
  <1>4. CASE TimerFn
    <2>1. sink' = RtpRemoveAll(sink, Expired)
      <3>1. PICK missed \in SUBSET Expired :
               /\ missed # {} => FALSE \in SinkLookup
               /\ sink' = RtpRemoveAll(sink, Expired \ missed)
        BY <1>4 DEF TimerFn
      <3>2. Expired \ missed = Expired
        BY <3>1
      <3> QED BY <3>1, <3>2
    <2> QED
      BY <1>4, <2>1, EndedLeases DEF TimerFn, Expired
  <1>5. CASE Tick
    BY <1>5, TickEffect, SameEndpoints DEF Tick
  <1> QED
    BY <1>1, <1>2, <1>3, <1>4, <1>5
       DEF Next, OnPitvRequest, RefuseRequest, vars

\* As long as the sink element is found, the stream goes to exactly the leased
\* endpoints: every path that grants, moves, ends or sweeps leases adjusts the
\* counters of multiudpsink by what it did to the table.
THEOREM SinkFollowsLeases ==
    ASSUME SinkLookup = {TRUE}
    PROVE  Spec => []SinkMatchesLeases
  <1>1. Init => SinkMatchesLeases
    <2> SUFFICES ASSUME Init, NEW e \in Endpoint
                 PROVE  sink[e] = Cardinality(Leased(e))
      BY DEF SinkMatchesLeases
    <2>1. Leased(e) = {}
      BY DEF Init, Leased
    <2> QED
      BY <2>1, FS_EmptySet DEF Init
  <1>2. TypeOK /\ SinkMatchesLeases /\ [Next]_vars => SinkMatchesLeases'
    BY NextSink
  <1> QED
    BY <1>1, <1>2, InitType, NextType, PTL DEF Spec

-------------------------------------------------------------------------------
(* Replies. *)

\* One step refuses nothing it has changed.
LEMMA StepRefuses ==
    ASSUME Next, reply'.code \notin {0, 200}, reply'.op # "end"
    PROVE  UNCHANGED <<lease_map, sink>>
  <1>1. ASSUME NEW rq \in Request, RefuseRequest(rq)
        PROVE  UNCHANGED <<lease_map, sink>>
    BY <1>1 DEF RefuseRequest
  <1>2. ASSUME NEW rq \in Request, LeaseCamera(rq)
        PROVE  UNCHANGED <<lease_map, sink>>
    <2>1. CASE LeaseLimitReached(rq) \/ RenewUnknown(rq)
      BY <2>1 DEF LeaseLimitReached, RenewUnknown
    <2>2. CASE NewLease(rq)
      BY <2>2 DEF NewLease, RtpAdd, Respond
    <2>3. CASE RenewLease(rq)
      BY <2>3 DEF RenewLease, Respond
    <2> QED BY <1>2, <2>1, <2>2, <2>3 DEF LeaseCamera
  <1>3. ASSUME NEW rq \in Request, EndCameraLease(rq)
        PROVE  FALSE
    BY <1>3 DEF EndCameraLease, EndUnknownUser, EndNoLease, EndLease, Respond
  <1>4. ~TimerFn /\ ~Tick
    <2>1. reply' # NoReply
      BY DEF NoReply
    <2> QED BY <2>1 DEF TimerFn, Tick
  <1> QED BY <1>1, <1>2, <1>3, <1>4 DEF Next, OnPitvRequest

\* A request that is not answered with 200 leaves leases and streams as they
\* were, whether or not the sink is found, but for an end that fails.
THEOREM RefusalsAreHarmless == Spec => RefusalChangesNothing
  <1>1. [Next]_vars => [reply'.code \notin {0, 200} /\ reply'.op # "end" =>
                          UNCHANGED <<lease_map, sink>>]_vars
    BY StepRefuses
  <1> QED BY <1>1, PTL DEF Spec, RefusalChangesNothing

\* What OwnerControlsLease says of one lease in one step.
OnlyByOwner(g) ==
    /\ lease_map[g].left > 0 /\ g \notin DOMAIN lease_map' =>
          /\ reply'.op = "end"
          /\ reply'.guid = g
          /\ reply'.to = lease_map[g].user
    /\ g \in DOMAIN lease_map' /\
       lease_map'[g].endpoint # lease_map[g].endpoint =>
          /\ reply'.op = "lease"
          /\ reply'.guid = g
          /\ reply'.to = lease_map[g].user

LEMMA StepIsOwners ==
    ASSUME TypeOK, Next, NEW g \in DOMAIN lease_map
    PROVE  OnlyByOwner(g)
  <1>1. CASE UNCHANGED lease_map
    BY <1>1 DEF OnlyByOwner
  <1>2. ASSUME NEW rq \in Request, LeaseCamera(rq)
        PROVE  OnlyByOwner(g)
    <2>1. Accepted(rq) /\ rq.lease_time # 0
      BY <1>2 DEF LeaseCamera
    <2>2. CASE lease_map' = WithLease(generated + 1, LeaseOf(rq))
      BY <2>1, <2>2, NewLeaseEffect DEF OnlyByOwner
    <2>3. CASE RenewLease(rq)
      <3>1. reply'.op = "lease" /\ reply'.guid = rq.guid /\ reply'.to = rq.user
        BY <2>3 DEF RenewLease, Respond
      <3> QED BY <2>1, <2>3, <3>1, RenewLeaseEffect DEF OnlyByOwner
    <2> QED BY <1>1, <1>2, <2>2, <2>3
            DEF LeaseCamera, LeaseLimitReached, NewLease, RenewUnknown
  <1>3. ASSUME NEW rq \in Request, EndLease(rq)
        PROVE  OnlyByOwner(g)
    <2>1. /\ lease_map' = WithoutLeases({rq.guid}) /\ lease_map[rq.guid].user = rq.user
          /\ reply'.op = "end" /\ reply'.guid = rq.guid /\ reply'.to = rq.user
      BY <1>3 DEF EndLease, Held, Respond
    <2>2. /\ DOMAIN lease_map' = DOMAIN lease_map \ {rq.guid}
          /\ \A h \in DOMAIN lease_map \ {rq.guid} : lease_map'[h] = lease_map[h]
      BY <2>1, WithoutLeasesType
    <2> QED BY <2>1, <2>2 DEF OnlyByOwner
  <1>4. CASE TimerFn
    <2>1. lease_map' = WithoutLeases(Expired)
      BY <1>4 DEF TimerFn
    <2>2. /\ DOMAIN lease_map' = DOMAIN lease_map \ Expired
          /\ \A h \in DOMAIN lease_map \ Expired : lease_map'[h] = lease_map[h]
      BY <2>1, WithoutLeasesType
    <2>3. lease_map[g].left \in Int
      BY DEF TypeOK, Lease
    <2>4. g \notin DOMAIN lease_map' => ~(lease_map[g].left > 0)
      BY <2>2, <2>3 DEF Expired
    <2> QED BY <2>2, <2>4 DEF OnlyByOwner
  <1>5. CASE Tick
    BY <1>5, TickEffect DEF OnlyByOwner
  <1> QED
    BY <1>1, <1>2, <1>3, <1>4, <1>5
    DEF Next, OnPitvRequest, RefuseRequest, EndCameraLease, EndUnknownUser, EndNoLease

\* A lease whose time is not over is ended, or sent elsewhere, only by a request
\* of its own user: not by the sweep, nor by another user's request.
THEOREM OwnersControlLeases == Spec => OwnerControlsLease
  <1>1. TypeOK /\ [Next]_vars =>
          [\A g \in DOMAIN lease_map :
             /\ lease_map[g].left > 0 /\ g \notin DOMAIN lease_map' =>
                   /\ reply'.op = "end"
                   /\ reply'.guid = g
                   /\ reply'.to = lease_map[g].user
             /\ g \in DOMAIN lease_map' /\
                lease_map'[g].endpoint # lease_map[g].endpoint =>
                   /\ reply'.op = "lease"
                   /\ reply'.guid = g
                   /\ reply'.to = lease_map[g].user]_vars
    BY StepIsOwners DEF OnlyByOwner
  <1> QED BY <1>1, TypeCorrect, PTL DEF Spec, OwnerControlsLease

\* Every lease in the table is one the sink sends to.
Sent == \A g \in DOMAIN lease_map : sink[lease_map[g].endpoint] > 0

LEMMA LeasedIsSent == TypeOK /\ SinkMatchesLeases => Sent
  <1> SUFFICES ASSUME TypeOK, SinkMatchesLeases, NEW g \in DOMAIN lease_map
               PROVE  sink[lease_map[g].endpoint] > 0
    BY DEF Sent
  <1> DEFINE S == Leased(lease_map[g].endpoint)
  <1>1. lease_map[g].endpoint \in Endpoint /\ g \in S /\ S \subseteq DOMAIN lease_map
    BY DEF TypeOK, Lease, Leased
  <1>2. IsFiniteSet(S) /\ Cardinality(S) \in Nat
    BY <1>1, FiniteLeases
  <1>3. Cardinality(S) # 0
    BY <1>1, <1>2, FS_EmptySet
  <1> QED BY <1>1, <1>2, <1>3 DEF SinkMatchesLeases

LEMMA NextTruthful ==
    ASSUME TypeOK, ReplyTruthful, [Next]_vars, Sent'
    PROVE  ReplyTruthful'
  <1> USE DEF ReplyTruthful
  <1>1. CASE UNCHANGED vars
    BY <1>1 DEF vars, Held
  <1>2. CASE reply'.code # 200
    BY <1>2
  <1>3. ASSUME NEW rq \in Request, LeaseCamera(rq), reply'.code = 200
        PROVE  ReplyTruthful'
    <2>1. Accepted(rq) /\ rq.lease_time # 0
      BY <1>3 DEF LeaseCamera
    <2>2. PICK g : /\ g \in DOMAIN lease_map' /\ lease_map'[g] = LeaseOf(rq)
                   /\ reply'.op = "lease" /\ reply'.guid = g /\ reply'.to = rq.user
      <3>1. CASE NewLease(rq)
        <4>1. /\ lease_map' = WithLease(generated + 1, LeaseOf(rq))
              /\ reply'.op = "lease" /\ reply'.guid = generated + 1
              /\ reply'.to = rq.user
          BY <1>3, <3>1 DEF NewLease, Respond
        <4> QED BY <2>1, <4>1, NewLeaseEffect
      <3>2. CASE RenewLease(rq)
        <4>1. reply'.op = "lease" /\ reply'.guid = rq.guid /\ reply'.to = rq.user
          BY <3>2 DEF RenewLease, Respond
        <4> QED BY <2>1, <3>2, <4>1, RenewLeaseEffect
      <3>3. ~LeaseLimitReached(rq) /\ ~RenewUnknown(rq)
        BY <1>3 DEF LeaseLimitReached, RenewUnknown, Respond
      <3> QED BY <1>3, <3>1, <3>2, <3>3 DEF LeaseCamera
    <2>3. LeaseOf(rq).user = rq.user /\ LeaseOf(rq).left \in 1..max_lease_time
      BY <2>1, RequestedLease
    <2>4. reply'.guid \in {h \in DOMAIN lease_map' : lease_map'[h].user = reply'.to}
      BY <2>2, <2>3
    <2>5. lease_map'[reply'.guid].left > 0
      BY <2>2, <2>3, TimeAssumption
    <2>6. sink'[lease_map'[reply'.guid].endpoint] > 0
      BY <2>2 DEF Sent
    <2> QED BY <2>2, <2>4, <2>5, <2>6 DEF Held
  <1>4. ASSUME NEW rq \in Request, EndCameraLease(rq), reply'.code = 200
        PROVE  ReplyTruthful'
    <2>1. reply'.op = "end" /\ reply'.guid = rq.guid /\ reply'.to = rq.user
      BY <1>4 DEF EndCameraLease, EndUnknownUser, EndNoLease, EndLease, Respond
    <2>2. CASE EndNoLease(rq)
      BY <2>1, <2>2 DEF EndNoLease, Held
    <2>3. CASE EndLease(rq)
      <3>1. lease_map' = WithoutLeases({rq.guid})
        BY <2>3 DEF EndLease
      <3>2. DOMAIN lease_map' = DOMAIN lease_map \ {rq.guid}
        BY <3>1, WithoutLeasesType
      <3> QED BY <2>1, <3>2 DEF Held
    <2>4. ~EndUnknownUser(rq)
      BY <1>4 DEF EndUnknownUser, Respond
    <2> QED BY <1>4, <2>2, <2>3, <2>4 DEF EndCameraLease
  <1>5. ASSUME NEW rq \in Request, RefuseRequest(rq)
        PROVE  reply'.code # 200
    BY <1>5 DEF RefuseRequest, Respond
  <1>6. ASSUME TimerFn \/ Tick
        PROVE  reply'.code # 200
    <2>1. reply' = NoReply
      BY <1>6 DEF TimerFn, Tick
    <2> QED BY <2>1 DEF NoReply
  <1> QED BY <1>1, <1>2, <1>3, <1>4, <1>5, <1>6 DEF Next, OnPitvRequest

\* While the sink can be found a viewer can rely on a 200: its lease runs and is
\* sent to its endpoint, or the lease it named is over.
THEOREM RepliesAreTrue ==
    ASSUME SinkLookup = {TRUE}
    PROVE  Spec => []ReplyTruthful
  <1>1. Init => ReplyTruthful
    BY DEF Init, ReplyTruthful, NoReply
  <1>2. TypeOK /\ ReplyTruthful /\ [Next]_vars /\ Sent' => ReplyTruthful'
    BY NextTruthful
  <1>3. Spec => []SinkMatchesLeases
    BY SinkFollowsLeases
  <1> QED BY <1>1, <1>2, <1>3, TypeCorrect, LeasedIsSent, PTL DEF Spec

-------------------------------------------------------------------------------
(* What a request does to one lease, and what a 200 says of one. *)

\* A request leaves a lease alone, renews it for its user, or ends it for him.
LEMMA RequestEffect ==
    ASSUME TypeOK, NEW rq \in Request, OnPitvRequest(rq), NEW g \in DOMAIN lease_map
    PROVE  \/ g \in DOMAIN lease_map' /\ lease_map'[g] = lease_map[g]
           \/ /\ g \in DOMAIN lease_map' /\ lease_map'[g] = LeaseOf(rq)
              /\ Accepted(rq) /\ rq.lease_time # 0 /\ lease_map[g].user = rq.user
           \/ rq.lease_time = 0 /\ lease_map[g].user = rq.user
  <1>1. CASE UNCHANGED lease_map
    BY <1>1
  <1>2. CASE LeaseCamera(rq)
    <2>1. Accepted(rq) /\ rq.lease_time # 0
      BY <1>2 DEF LeaseCamera
    <2>2. CASE lease_map' = WithLease(generated + 1, LeaseOf(rq))
      BY <2>1, <2>2, NewLeaseEffect
    <2>3. CASE RenewLease(rq)
      BY <2>1, <2>3, RenewLeaseEffect
    <2> QED BY <1>1, <1>2, <2>2, <2>3
            DEF LeaseCamera, LeaseLimitReached, NewLease, RenewUnknown
  <1>3. CASE EndLease(rq) /\ rq.lease_time = 0
    <2>1. lease_map' = WithoutLeases({rq.guid}) /\ lease_map[rq.guid].user = rq.user
      BY <1>3 DEF EndLease, Held
    <2>2. /\ DOMAIN lease_map' = DOMAIN lease_map \ {rq.guid}
          /\ \A h \in DOMAIN lease_map \ {rq.guid} : lease_map'[h] = lease_map[h]
      BY <2>1, WithoutLeasesType
    <2> QED BY <1>3, <2>1, <2>2
  <1> QED
    BY <1>1, <1>2, <1>3
    DEF OnPitvRequest, RefuseRequest, EndCameraLease, EndUnknownUser, EndNoLease

\* A lease request answered with 200 has made or renewed the lease it names.
LEMMA GrantEffect ==
    ASSUME TypeOK, NEW rq \in Request, OnPitvRequest(rq), rq.lease_time # 0,
           reply'.code = 200
    PROVE  /\ Accepted(rq) /\ reply'.guid \in Guid
           /\ reply'.guid \in DOMAIN lease_map' /\ lease_map'[reply'.guid] = LeaseOf(rq)
  <1>1. LeaseCamera(rq)
    BY DEF OnPitvRequest, RefuseRequest, EndCameraLease, Respond
  <1>2. Accepted(rq)
    BY <1>1 DEF LeaseCamera
  <1>3. CASE NewLease(rq)
    <2>1. /\ lease_map' = WithLease(generated + 1, LeaseOf(rq))
          /\ reply'.guid = generated + 1 /\ generated < MaxGuids
      BY <1>3 DEF NewLease, Respond
    <2> QED BY <1>2, <2>1, NewLeaseEffect DEF Guid, TypeOK
  <1>4. CASE RenewLease(rq)
    <2>1. reply'.guid = rq.guid /\ rq.guid \in Guid
      BY <1>4, RequestedLease, <1>2 DEF RenewLease, Respond
    <2> QED BY <1>2, <1>4, <2>1, RenewLeaseEffect
  <1> QED BY <1>1, <1>2, <1>3, <1>4 DEF LeaseCamera, LeaseLimitReached, RenewUnknown, Respond

\* What a request answered with 200 names.
LEMMA AnswerNames ==
    ASSUME NEW rq \in Request, OnPitvRequest(rq), reply'.code = 200, TypeOK
    PROVE  /\ reply'.guid \in Guid \cup {EmptyGuid}
           /\ rq.guid # EmptyGuid => reply'.guid = rq.guid
  <1>1. Accepted(rq) /\ (LeaseCamera(rq) \/ EndCameraLease(rq))
    BY DEF OnPitvRequest, RefuseRequest, LeaseCamera, EndCameraLease, Respond
  <1>2. rq.guid \in Guid \cup {EmptyGuid}
    BY <1>1 DEF Accepted, WellFormed, Request, NoPost
  <1>3. CASE NewLease(rq)
    <2>1. reply'.guid = generated + 1 /\ generated < MaxGuids /\ rq.guid = EmptyGuid
      BY <1>3 DEF NewLease, Respond
    <2> QED BY <2>1 DEF Guid, TypeOK
  <1>4. CASE ~NewLease(rq)
    <2>1. reply'.guid = rq.guid
      BY <1>1, <1>4 DEF LeaseCamera, LeaseLimitReached, RenewUnknown, RenewLease,
            EndCameraLease, EndUnknownUser, EndNoLease, EndLease, Respond
    <2> QED BY <1>2, <2>1
  <1> QED BY <1>3, <1>4

-------------------------------------------------------------------------------
(* The refinement: while the sink element is found LeaseServer implements   *)
(* StreamGrants.                                                           *)

\* What every reachable state satisfies, with a sink that is there.
Consistent == TypeOK /\ LeaseLimit /\ SweptInTime /\ SinkMatchesLeases

LEMMA ConsistentInit == Init => Consistent
  <1> SUFFICES ASSUME Init PROVE Consistent
    OBVIOUS
  <1>1. TypeOK
    BY InitType
  <1>2. LeaseLimit
    <2> SUFFICES ASSUME NEW u \in User
                 PROVE  Cardinality(Held(u)) <= user_max_leases
      BY DEF LeaseLimit
    <2>1. Held(u) = {}
      BY DEF Init, Held
    <2> QED
      BY <2>1, FS_EmptySet
  <1>3. SinkMatchesLeases
    <2> SUFFICES ASSUME NEW e \in Endpoint
                 PROVE  sink[e] = Cardinality(Leased(e))
      BY DEF SinkMatchesLeases
    <2>1. Leased(e) = {}
      BY DEF Init, Leased
    <2> QED
      BY <2>1, FS_EmptySet DEF Init
  <1>4. SweptInTime
    BY DEF Init, SweptInTime
  <1> QED
    BY <1>1, <1>2, <1>3, <1>4 DEF Consistent

LEMMA ConsistentNext ==
    ASSUME SinkLookup = {TRUE}
    PROVE  Consistent /\ [Next]_vars => Consistent'
  BY NextType, NextLimit, NextSwept, NextSink DEF Consistent

-------------------------------------------------------------------------------
\* Both modules count with the operator of FiniteSets.
LEMMA SameCardinality == \A S : Grants!Cardinality(S) = Cardinality(S)
  BY DEF Cardinality, Grants!Cardinality, IsFiniteSet, Grants!IsFiniteSet

\* The counters of the sink are the copies the grants ask for.
LEMMA SinkCopies ==
    ASSUME TypeOK', SinkMatchesLeases'
    PROVE  sink' = Grants!CopiesOf(lease_map')
  <1>1. sink' \in [Endpoint -> Nat]
    BY DEF TypeOK
  <1> DEFINE n(e) == Cardinality({g \in DOMAIN lease_map' :
                                    lease_map'[g].endpoint = e})
  <1>2. \A e \in Endpoint : sink'[e] = n(e)
    BY DEF SinkMatchesLeases, Leased
  <1>3. Grants!CopiesOf(lease_map') = [e \in Endpoint |-> n(e)]
    BY SameCardinality DEF Grants!CopiesOf
  <1> HIDE DEF n
  <1> QED
    BY <1>1, <1>2, <1>3

LEMMA Becomes ==
    ASSUME TypeOK', SinkMatchesLeases', NEW w, lease_map' = w
    PROVE  Grants!Become(w)
  BY SinkCopies DEF Grants!Become

\* A new lease is a grant under a name that was never used.
LEMMA NewLeaseGrants ==
    ASSUME Consistent, Consistent', SinkLookup = {TRUE}, NEW rq \in Request,
           Accepted(rq), rq.lease_time # 0, NewLease(rq)
    PROVE  Grants!Next
  <1> DEFINE g == generated + 1
             t == ClampedTime(rq.lease_time)
  <1>1. TypeOK /\ TypeOK' /\ SinkMatchesLeases'
    BY DEF Consistent
  <1>2. /\ lease_map' = WithLease(g, LeaseOf(rq))
        /\ generated' = g /\ generated < MaxGuids
        /\ ~AtLimit(rq.user)
    BY DEF NewLease
  <1>3. /\ rq.user \in User
        /\ rq.endpoint \in Endpoint
        /\ t \in 1..max_lease_time
    BY RequestedLease DEF LeaseOf, Lease
  <1>4. /\ g \in Guid /\ g \notin 1..generated
        /\ 1..g = (1..generated) \cup {g}
    BY <1>1, <1>2 DEF TypeOK, Guid
  <1>5. Cardinality(Grants!Held(rq.user)) < user_max_leases
    <2>1. Cardinality(Held(rq.user)) \in Nat
      BY <1>1, FiniteLeases DEF Held
    <2> QED
      BY <1>2, <2>1, SameCardinality DEF AtLimit, Held, Grants!Held
  <1>6. lease_map' = [h \in DOMAIN lease_map \cup {g} |->
                         IF h = g THEN [user |-> rq.user, endpoint |-> rq.endpoint,
                                        left |-> t]
                                  ELSE lease_map[h]]
    BY <1>2 DEF WithLease, LeaseOf
  <1> HIDE DEF g, t
  <1>7. Grants!Grant(g, rq.user, rq.endpoint, t)
    <2>1. Grants!Become([h \in DOMAIN lease_map \cup {g} |->
                            IF h = g THEN [user |-> rq.user,
                                           endpoint |-> rq.endpoint, left |-> t]
                                     ELSE lease_map[h]])
      BY ONLY <1>1, <1>6, Becomes
    <2>2. Grants!Cardinality(Grants!Held(rq.user)) < user_max_leases
      BY ONLY <1>5, SameCardinality
    <2>3. 1..generated' = (1..generated) \cup {g}
      BY ONLY <1>2, <1>4
    <2> QED
      BY ONLY <1>4, <2>1, <2>2, <2>3 DEF Grants!Grant
  <1> QED
    BY <1>3, <1>4, <1>7 DEF Grants!Next

\* A renewal keeps the owner of the grant.
LEMMA RenewLeaseRenews ==
    ASSUME Consistent, Consistent', NEW rq \in Request,
           Accepted(rq), rq.lease_time # 0, RenewLease(rq)
    PROVE  Grants!Next
  <1> DEFINE g == rq.guid
             t == ClampedTime(rq.lease_time)
             entry == [user |-> lease_map[g].user, endpoint |-> rq.endpoint,
                       left |-> t]
  <1>1. TypeOK /\ TypeOK' /\ SinkMatchesLeases'
    BY DEF Consistent
  <1>2. /\ g \in DOMAIN lease_map
        /\ lease_map[g].user = rq.user
        /\ DOMAIN lease_map' = DOMAIN lease_map
        /\ lease_map'[g] = LeaseOf(rq)
        /\ \A h \in DOMAIN lease_map : h # g => lease_map'[h] = lease_map[h]
    BY <1>1, RenewLeaseEffect
  <1>3. rq.endpoint \in Endpoint /\ t \in 1..max_lease_time
    BY RequestedLease DEF LeaseOf, Lease
  <1>4. lease_map' = [lease_map EXCEPT ![g] = entry]
    <2>1. lease_map'[g] = entry
      BY <1>2 DEF LeaseOf
    <2>2. /\ lease_map' \in [DOMAIN lease_map -> Lease]
          /\ lease_map \in [DOMAIN lease_map -> Lease]
      BY <1>1, <1>2 DEF TypeOK
    <2> HIDE DEF entry
    <2> QED
      BY <1>2, <2>1, <2>2
  <1>5. 1..generated' = 1..generated
    BY DEF RenewLease
  <1>6. Grants!Become([lease_map EXCEPT ![g] = entry])
    BY ONLY <1>1, <1>4, Becomes
  <1>7. Grants!Renew(g, rq.endpoint, t)
    BY <1>5, <1>6 DEF Grants!Renew
  <1> HIDE DEF g, t
  <1> QED
    BY <1>2, <1>3, <1>7 DEF Grants!Next

\* The end of a lease is the release of its grant.
LEMMA EndLeaseReleases ==
    ASSUME Consistent, Consistent', NEW rq \in Request, EndLease(rq),
           UNCHANGED generated
    PROVE  Grants!Next
  <1>1. TypeOK' /\ SinkMatchesLeases'
    BY DEF Consistent
  <1>2. /\ rq.guid \in DOMAIN lease_map
        /\ lease_map' = Grants!Keep(DOMAIN lease_map \ {rq.guid})
    BY DEF EndLease, Held, WithoutLeases, Grants!Keep
  <1>3. Grants!Become(Grants!Keep(DOMAIN lease_map \ {rq.guid}))
    BY ONLY <1>1, <1>2, Becomes
  <1>4. Grants!Release(rq.guid)
    BY <1>3 DEF Grants!Release
  <1> QED
    BY <1>2, <1>4 DEF Grants!Next

\* The sweep withdraws exactly the grants whose time is over.
LEMMA TimerFnExpires ==
    ASSUME Consistent, Consistent', TimerFn
    PROVE  Grants!Next
  <1> DEFINE kept == {g \in DOMAIN lease_map : lease_map[g].left > 0}
  <1>1. TypeOK /\ TypeOK' /\ SinkMatchesLeases'
    BY DEF Consistent
  <1>2. DOMAIN lease_map \ Expired = kept
    BY <1>1 DEF TypeOK, Lease, Expired
  <1>3. lease_map' = Grants!Keep(kept)
    BY <1>2 DEF TimerFn, WithoutLeases, Grants!Keep
  <1>4. Grants!Become(Grants!Keep(kept))
    BY ONLY <1>1, <1>3, Becomes
  <1>5. 1..generated' = 1..generated
    BY DEF TimerFn
  <1> QED
    BY <1>4, <1>5 DEF Grants!Expire, Grants!Next

\* Time passes only while no grant is at the end of its grace period, because
\* the main loop polls in time.
LEMMA TickPasses ==
    ASSUME Consistent, Consistent', Tick
    PROVE  Grants!Next
  <1>1. TypeOK /\ TypeOK' /\ SweptInTime' /\ SinkMatchesLeases'
    BY DEF Consistent
  <1>2. lease_map' = [g \in DOMAIN lease_map |->
                         [lease_map[g] EXCEPT !.left = @ - 1]]
    BY DEF Tick
  <1>3. ASSUME NEW g \in DOMAIN lease_map
        PROVE  lease_map[g].left > -(TimerPeriod + PollSlack - 1)
    <2>1. lease_map[g].left \in Int
      BY <1>1 DEF TypeOK, Lease
    <2>2. /\ DOMAIN lease_map' = DOMAIN lease_map
          /\ lease_map'[g].left = lease_map[g].left - 1
      BY <1>1, TickEffect
    <2>3. lease_map'[g].left > timer_left' - TimerPeriod
      BY <1>1, <2>2 DEF SweptInTime
    <2>4. timer_left' \in Int /\ timer_left' >= -PollSlack
      BY <1>1 DEF TypeOK
    <2> QED
      BY <2>1, <2>2, <2>3, <2>4
  <1>4. Grants!Become([g \in DOMAIN lease_map |->
                          [lease_map[g] EXCEPT !.left = @ - 1]])
    BY ONLY <1>1, <1>2, Becomes
  <1>5. 1..generated' = 1..generated
    BY DEF Tick
  <1>6. Grants!Pass
    BY <1>3, <1>4, <1>5 DEF Grants!Pass
  <1> QED
    BY <1>6 DEF Grants!Next

-------------------------------------------------------------------------------
\* Every other step leaves the grants alone.
LEMMA StepRefines ==
    ASSUME Consistent, Consistent', SinkLookup = {TRUE}, [Next]_vars
    PROVE  [Grants!Next]_Grants!vars
  <1>1. CASE UNCHANGED <<lease_map, generated, sink>>
    BY <1>1 DEF Grants!vars
  <1>2. ASSUME NEW rq \in Request, LeaseCamera(rq)
        PROVE  [Grants!Next]_Grants!vars
    <2>1. Accepted(rq) /\ rq.lease_time # 0
      BY <1>2 DEF LeaseCamera
    <2>2. CASE NewLease(rq)
      BY <2>1, <2>2, NewLeaseGrants
    <2>3. CASE RenewLease(rq)
      BY <2>1, <2>3, RenewLeaseRenews
    <2> QED
      BY <1>1, <1>2, <2>2, <2>3 DEF LeaseCamera, LeaseLimitReached, RenewUnknown
  <1>3. ASSUME NEW rq \in Request, EndCameraLease(rq)
        PROVE  [Grants!Next]_Grants!vars
    <2>1. UNCHANGED generated
      BY <1>3 DEF EndCameraLease
    <2>2. CASE EndLease(rq)
      BY <2>1, <2>2, EndLeaseReleases
    <2> QED
      BY <1>1, <1>3, <2>1, <2>2 DEF EndCameraLease, EndUnknownUser, EndNoLease
  <1>4. CASE TimerFn
    BY <1>4, TimerFnExpires
  <1>5. CASE Tick
    BY <1>5, TickPasses
  <1> QED
    BY <1>1, <1>2, <1>3, <1>4, <1>5
       DEF Next, OnPitvRequest, RefuseRequest, vars

LEMMA InitRefines == Init => Grants!Init
  <1> SUFFICES ASSUME Init PROVE Grants!Init
    OBVIOUS
  <1>1. 1..generated = {}
    BY DEF Init
  <1> QED
    BY <1>1 DEF Init, Grants!Init

\* The lease table, the sweep and the counters of the sink (lease_camera,
\* end_camera_lease, timer_fn, rtp_*_endpoint) keep the promise StreamGrants
\* states: every step is one of its steps or changes nothing it speaks of.
THEOREM ServerImplementsGrants ==
    ASSUME SinkLookup = {TRUE}
    PROVE  Spec => ImplementsGrants
  <1>1. Init => Consistent /\ Grants!Init
    BY ConsistentInit, InitRefines
  <1>2. Consistent /\ [Next]_vars => Consistent'
    BY ConsistentNext
  <1>3. Consistent /\ Consistent' /\ [Next]_vars => [Grants!Next]_Grants!vars
    BY StepRefines
  <1> QED
    BY <1>1, <1>2, <1>3, PTL DEF Spec, ImplementsGrants, Grants!Spec

===============================================================================
