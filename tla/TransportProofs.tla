-------------------------- MODULE TransportProofs --------------------------
(***************************************************************************)
(* Machine-checked proofs about the connection pool, the transport over it  *)
(* and the capacity of an adapter in front of it, for any sets of           *)
(* connections, requests and keys and any limits: the pool first, then that *)
(* the transport implements it, so that what is proved of the pool holds of *)
(* the transport, then what pool_block=True promises.                       *)
(***************************************************************************)
EXTENDS AdapterPool, FiniteSetTheorems, TLAPS

(***************************************************************************)
(* The pool (ConnectionPool).                                               *)
(***************************************************************************)

USE MaxIdleAssumption, MaxGenerationAssumption, NoConnAssumption, NoKeyAssumption

\* The state of the pool, the leases and the connections stays well formed.
LEMMA TypeInit == Init => TypeOK
  BY DEF Init, TypeOK, Generations, Leases, NoLease, Causes, Absent

\* Every step of the pool keeps the types.
LEMMA TypeStep == TypeOK /\ [Next]_vars => TypeOK'
  <1> SUFFICES ASSUME TypeOK, [Next]_vars PROVE TypeOK'
    OBVIOUS
  <1> USE DEF TypeOK, Generations, Leases, Causes, Absent
  <1>1. ASSUME NEW r \in Requests, NEW k \in Keys, Acquire(r, k) PROVE TypeOK'
    BY <1>1 DEF Acquire, NewLease, connVars, history
  <1>2. ASSUME NEW r \in Requests, NEW k \in Keys, NEW c \in Conns,
               BeginConnect(r, k, c)
        PROVE  TypeOK'
    BY <1>2 DEF BeginConnect, NewLease, poolVars
  <1>3. ASSUME NEW r \in Requests, Dialed(r) PROVE TypeOK'
    BY <1>3 DEF Dialed, poolVars, history
  <1>4. ASSUME NEW r \in Requests, Established(r) PROVE TypeOK'
    BY <1>4 DEF Established, poolVars, history
  <1>5. ASSUME NEW r \in Requests, DropLease(r) PROVE TypeOK'
    BY <1>5 DEF DropLease, Shut, NoLease, poolVars, history
  <1>6. ASSUME NEW r \in Requests, PollDriver(r) PROVE TypeOK'
    BY <1>6 DEF PollDriver, Shut, poolVars, history
  <1>7. ASSUME NEW r \in Requests, CompleteReusable(r) PROVE TypeOK'
    BY <1>7 DEF CompleteReusable, Completed, poolVars, connVars, history
  <1>8. ASSUME NEW r \in Requests, NEW cause \in Causes, CompleteDirty(r, cause)
        PROVE  TypeOK'
    BY <1>8 DEF CompleteDirty, Completed, Shut, poolVars, history
  <1>9. ASSUME NEW r \in Requests, Park(r) PROVE TypeOK'
    BY <1>9 DEF Park, NoLease, connVars, history
  <1>10. ASSUME NEW r \in Requests, Reject(r) PROVE TypeOK'
    BY <1>10 DEF Reject, Shut, NoLease, history
  <1>11. ASSUME Clear PROVE TypeOK'
    BY <1>11 DEF Clear, Shut, history
  <1>12. ASSUME NEW c \in Conns, ConnStep(c) PROVE TypeOK'
    BY <1>12 DEF ConnStep, PeerCloses, DriverEnds, poolVars, history
  <1>13. ASSUME UNCHANGED vars PROVE TypeOK'
    BY <1>13 DEF vars
  <1> QED
    BY <1>1, <1>2, <1>3, <1>4, <1>5, <1>6, <1>7, <1>8, <1>9, <1>10, <1>11,
       <1>12, <1>13 DEF Next, RequestStep

\* Type correctness of the pool.
THEOREM PoolTypeCorrect == Spec => []TypeOK
  BY TypeInit, TypeStep, PTL DEF Spec

-----------------------------------------------------------------------------
(* The inductive invariant.  Ownership alone is not inductive: a fresh        *)
(* connection is unowned only because every owned one is in use, a parked one *)
(* is open only because a running driver keeps its handle, and it is of the   *)
(* current generation and right key only because its lease was.               *)
EntriesCurrent ==
    \A k \in Keys : /\ number[k] \in {Absent, generation}
                    /\ number[k] = Absent => idle[k] = <<>>

DriverKeepsSocket ==
    \A c \in Conns : driver[c] \in {"running", "ended"} => socket[c] = "open"

LeaseFaithful ==
    \A r \in Requests : lease[r].at # "none" =>
        /\ socket[lease[r].conn] # "unused"
        /\ opened[lease[r].conn] = lease[r].generation
        /\ keyOf[lease[r].conn] = lease[r].key

SlotFaithful ==
    \A k \in Keys : \A i \in 1..Len(idle[k]) :
        /\ socket[idle[k][i]] = "open"
        /\ opened[idle[k][i]] = generation
        /\ keyOf[idle[k][i]] = k

LeasedNotInSlot ==
    \A r \in Requests, k \in Keys : lease[r].at # "none" =>
        \A i \in 1..Len(idle[k]) : idle[k][i] # lease[r].conn

IInv ==
    /\ TypeOK
    /\ SlotsDistinct
    /\ LeasesDistinct
    /\ LeasedNotInSlot
    /\ EntriesCurrent
    /\ DriverKeepsSocket
    /\ LeaseFaithful
    /\ SlotFaithful
    /\ IdleBounded

\* The empty pool.
LEMMA InvInit == Init => IInv
  <1> SUFFICES ASSUME Init PROVE IInv
    OBVIOUS
  <1>1. TypeOK
    BY TypeInit
  <1>2. /\ SlotsDistinct /\ LeasesDistinct /\ LeasedNotInSlot /\ EntriesCurrent
        /\ DriverKeepsSocket /\ LeaseFaithful /\ SlotFaithful /\ IdleBounded
    BY DEF Init, NoLease, SlotsDistinct, LeasesDistinct, LeasedNotInSlot,
           EntriesCurrent, DriverKeepsSocket, LeaseFaithful, SlotFaithful, IdleBounded
  <1> QED
    BY <1>1, <1>2 DEF IInv

\* One case per operation of the pool, one step per conjunct it can disturb.
LEMMA InvStep == IInv /\ [Next]_vars => IInv'
  <1> SUFFICES ASSUME IInv, [Next]_vars PROVE IInv'
    OBVIOUS
  <1>t. TypeOK'
    BY TypeStep DEF IInv
  <1>i. /\ TypeOK /\ SlotsDistinct /\ LeasesDistinct /\ LeasedNotInSlot
        /\ EntriesCurrent /\ DriverKeepsSocket /\ LeaseFaithful
        /\ SlotFaithful /\ IdleBounded
    BY DEF IInv
  <1> DEFINE Rest == /\ SlotsDistinct /\ LeasesDistinct /\ LeasedNotInSlot
                     /\ EntriesCurrent /\ DriverKeepsSocket /\ LeaseFaithful
                     /\ SlotFaithful /\ IdleBounded
  <1>1. ASSUME NEW r \in Requests, NEW k \in Keys, Acquire(r, k) PROVE Rest'
    <2> DEFINE n == Len(idle[k])
               c == idle[k][n]
    <2>0. n \in Nat /\ n >= 1 /\ n \in 1..Len(idle[k]) /\ c \in Conns
      BY <1>1, <1>i DEF Acquire, TypeOK
    <2>1. /\ n \in Nat /\ n >= 1 /\ c \in Conns /\ n \in 1..Len(idle[k])
          /\ Len(idle'[k]) = n - 1
          /\ \A i \in 1..(n - 1) : idle'[k][i] = idle[k][i]
          /\ \A l \in Keys \ {k} : idle'[l] = idle[l]
      <3>1. idle'[k] = SubSeq(idle[k], 1, n - 1) /\ \A l \in Keys \ {k} : idle'[l] = idle[l]
        BY <1>1, <1>i DEF Acquire, TypeOK
      <3>2. idle[k] \in Seq(Conns)
        BY <1>i DEF TypeOK
      <3> QED
        BY <2>0, <3>1, <3>2
    <2> HIDE DEF n, c
    <2>2. \A l \in Keys : \A i \in 1..Len(idle'[l]) :
              i \in 1..Len(idle[l]) /\ idle'[l][i] = idle[l][i]
      <3>1. \A i \in 1..Len(idle'[k]) : i \in 1..n /\ i \in 1..(n - 1)
        BY <2>1
      <3> QED
        BY <2>1, <3>1 DEF n
    <2>3. \A l \in Keys : \A i \in 1..Len(idle'[l]) : idle'[l][i] # c
      <3> SUFFICES ASSUME NEW l \in Keys, NEW i \in 1..Len(idle'[l]),
                          idle'[l][i] = c
                   PROVE  FALSE
        OBVIOUS
      <3>1. idle[l][i] = idle[k][n] /\ i \in 1..Len(idle[l]) /\ n \in 1..Len(idle[k])
        BY <2>1, <2>2 DEF c
      <3>2. l = k /\ i = n
        BY <3>1, <1>i DEF SlotsDistinct
      <3> QED
        BY <3>2, <2>1
    <2>4. /\ lease[r].at = "none"
          /\ \A s \in Requests \ {r} : lease'[s] = lease[s]
          /\ lease'[r].at = "held" /\ lease'[r].conn = c /\ lease'[r].key = k
          /\ lease'[r].generation = generation
      BY <1>1, <1>i DEF Acquire, NewLease, TypeOK, n, c
    <2>5. \A s \in Requests : lease[s].at # "none" => lease[s].conn # c
      BY <2>1, <1>i DEF LeasedNotInSlot, c
    <2>6. UNCHANGED <<generation, number, socket, driver, peerOpen, opened, keyOf>>
      BY <1>1 DEF Acquire, connVars, history
    <2>7. SlotsDistinct'
      BY <2>2, <1>i DEF SlotsDistinct
    <2>8. LeasesDistinct'
      BY <2>4, <2>5, <1>i DEF LeasesDistinct
    <2>9. LeasedNotInSlot'
      BY <2>2, <2>3, <2>4, <1>i DEF LeasedNotInSlot
    <2>10. LeaseFaithful'
      <3>1. socket[c] = "open" /\ opened[c] = generation /\ keyOf[c] = k
        BY <2>1, <1>i DEF SlotFaithful, c
      <3> QED
        BY <3>1, <2>4, <2>6, <1>i DEF LeaseFaithful
    <2>11. SlotFaithful' /\ DriverKeepsSocket'
      BY <2>2, <2>6, <1>i DEF SlotFaithful, DriverKeepsSocket
    <2>12. EntriesCurrent'
      <3>1. number[k] # Absent
        BY <1>1, <1>i DEF Acquire, EntriesCurrent
      <3> QED
        BY <3>1, <2>1, <2>6, <1>i DEF EntriesCurrent
    <2>13. IdleBounded'
      BY <2>1, <1>i DEF IdleBounded, n
    <2> QED
      BY <2>7, <2>8, <2>9, <2>10, <2>11, <2>12, <2>13
  <1>2. ASSUME NEW r \in Requests, NEW k \in Keys, NEW c \in Conns,
               BeginConnect(r, k, c)
        PROVE  Rest'
    <2>1. /\ lease'[r].at = "connecting" /\ lease'[r].conn = c /\ lease'[r].key = k
          /\ lease'[r].generation = generation
          /\ \A s \in Requests \ {r} : lease'[s] = lease[s]
      BY <1>2, <1>i DEF BeginConnect, NewLease, TypeOK
    <2>2. \A s \in Requests : lease[s].at # "none" => lease[s].conn # c
      BY <1>2, <1>i DEF BeginConnect, LeaseFaithful
    <2>3. \A l \in Keys : \A i \in 1..Len(idle[l]) : idle[l][i] \in Conns \ {c}
      BY <1>2, <1>i DEF BeginConnect, SlotFaithful, TypeOK
    <2>4. driver[c] \notin {"running", "ended"}
      BY <1>2, <1>i DEF BeginConnect, DriverKeepsSocket
    <2>5. /\ socket'[c] = "dialing" /\ opened'[c] = generation /\ keyOf'[c] = k
          /\ \A d \in Conns \ {c} : /\ socket'[d] = socket[d]
                                   /\ opened'[d] = opened[d]
                                   /\ keyOf'[d] = keyOf[d]
          /\ UNCHANGED <<generation, number, idle, driver, peerOpen>>
      BY <1>2, <1>i DEF BeginConnect, poolVars, TypeOK
    <2>6. LeasesDistinct' /\ LeasedNotInSlot'
      BY <2>1, <2>2, <2>3, <2>5, <1>i DEF LeasesDistinct, LeasedNotInSlot
    <2>7. LeaseFaithful'
      <3>1. \A s \in Requests \ {r} : lease[s].at # "none" => lease[s].conn \in Conns \ {c}
        BY <2>2, <1>i DEF TypeOK
      <3> QED
        BY <3>1, <2>1, <2>5, <1>i DEF LeaseFaithful
    <2>8. SlotFaithful'
      BY <2>3, <2>5, <1>i DEF SlotFaithful
    <2>9. SlotsDistinct' /\ EntriesCurrent' /\ IdleBounded' /\ DriverKeepsSocket'
      BY <2>4, <2>5, <1>i DEF SlotsDistinct, EntriesCurrent, IdleBounded, DriverKeepsSocket
    <2> QED
      BY <2>6, <2>7, <2>8, <2>9
  \* A lease that ends by shutting its connection, whoever drops it.
  <1>3. ASSUME NEW r \in Requests, lease[r].at # "none", Shut({lease[r].conn}),
               lease' = [lease EXCEPT ![r] = NoLease], EntriesCurrent',
               UNCHANGED <<generation, idle, peerOpen, opened, keyOf>>
        PROVE  Rest'
    <2> DEFINE c == lease[r].conn
    <2>1. /\ lease'[r].at = "none"
          /\ \A s \in Requests \ {r} : lease'[s] = lease[s]
          /\ lease[r].at # "none" /\ c \in Conns
      BY <1>3, <1>i DEF NoLease, TypeOK
    <2>2. /\ socket'[c] = "shut" /\ driver'[c] = "taken"
          /\ \A d \in Conns \ {c} : socket'[d] = socket[d] /\ driver'[d] = driver[d]
          /\ UNCHANGED <<generation, idle, peerOpen, opened, keyOf>>
      BY <1>3, <2>1 DEF Shut
    <2> HIDE DEF c
    <2>3. SlotsDistinct' /\ EntriesCurrent' /\ IdleBounded'
      BY <1>3, <2>2, <1>i DEF SlotsDistinct, IdleBounded
    <2>4. DriverKeepsSocket'
      BY <2>2, <1>i DEF DriverKeepsSocket
    <2>5. LeasesDistinct' /\ LeasedNotInSlot'
      BY <2>1, <2>2, <1>i DEF LeasesDistinct, LeasedNotInSlot
    <2>6. LeaseFaithful'
      <3>1. \A s \in Requests \ {r} : lease[s].at # "none" => lease[s].conn \in Conns \ {c}
        BY <2>1, <1>i DEF TypeOK, LeasesDistinct, c
      <3> QED
        BY <3>1, <2>1, <2>2, <1>i DEF LeaseFaithful
    <2>7. SlotFaithful'
      <3>1. \A l \in Keys : \A i \in 1..Len(idle[l]) : idle[l][i] \in Conns \ {c}
        BY <2>1, <1>i DEF LeasedNotInSlot, TypeOK, c
      <3> QED
        BY <3>1, <2>2, <1>i DEF SlotFaithful
    <2> QED
      BY <2>3, <2>4, <2>5, <2>6, <2>7
  <1>3a. ASSUME NEW r \in Requests, DropLease(r) PROVE Rest'
    <2>1. EntriesCurrent'
      BY <1>3a, <1>i DEF DropLease, poolVars, EntriesCurrent
    <2> QED
      BY <1>3, <1>3a, <2>1 DEF DropLease, poolVars, history
  <1>3b. ASSUME NEW r \in Requests, Reject(r) PROVE Rest'
    <2>1. EntriesCurrent'
      BY <1>3b, <1>i DEF Reject, Reusable, EntriesCurrent, TypeOK
    <2> QED
      BY <1>3, <1>3b, <2>1 DEF Reject, history
  <1>4. ASSUME NEW r \in Requests, Park(r) PROVE Rest'
    <2> DEFINE c == lease[r].conn
               k == lease[r].key
               n == Len(idle[k])
    <2>1. /\ lease'[r].at = "none"
          /\ \A s \in Requests \ {r} : lease'[s] = lease[s]
          /\ lease[r].at # "none" /\ c \in Conns /\ k \in Keys
      BY <1>4, <1>i DEF Park, NoLease, TypeOK
    <2>2. /\ n \in Nat /\ n < MaxIdle /\ Len(idle'[k]) = n + 1
          /\ idle'[k][n + 1] = c
          /\ \A i \in 1..n : idle'[k][i] = idle[k][i]
          /\ \A l \in Keys \ {k} : idle'[l] = idle[l]
      BY <1>4, <2>1, <1>i DEF Park, HasRoom, TypeOK
    <2>3. /\ number'[k] = generation
          /\ \A l \in Keys \ {k} : number'[l] = number[l]
          /\ UNCHANGED <<generation, socket, driver, peerOpen, opened, keyOf>>
      BY <1>4, <2>1, <1>i DEF Park, connVars, history, TypeOK
    <2>4. socket[c] = "open" /\ opened[c] = generation /\ keyOf[c] = k
      BY <1>4, <2>1, <1>i
         DEF Park, Reusable, IsLive, DriverKeepsSocket, LeaseFaithful
    <2>5. \A l \in Keys : \A i \in 1..Len(idle[l]) : idle[l][i] # c
      BY <2>1, <1>i DEF LeasedNotInSlot
    <2> HIDE DEF c, k, n
    <2>6. \A l \in Keys : \A i \in 1..Len(idle'[l]) :
              \/ l = k /\ i = n + 1 /\ idle'[l][i] = c
              \/ i \in 1..Len(idle[l]) /\ idle'[l][i] = idle[l][i]
      <3>1. \A i \in 1..Len(idle'[k]) : i = n + 1 \/ i \in 1..n
        BY <2>2
      <3> QED
        BY <3>1, <2>2 DEF n
    <2>7. SlotsDistinct'
      BY <2>5, <2>6, <1>i DEF SlotsDistinct
    <2>8. LeasesDistinct' /\ LeaseFaithful' /\ DriverKeepsSocket'
      BY <2>1, <2>3, <1>i DEF LeasesDistinct, LeaseFaithful, DriverKeepsSocket
    <2>9. LeasedNotInSlot'
      <3>1. \A s \in Requests \ {r} : lease[s].at # "none" => lease[s].conn # c
        BY <2>1, <1>i DEF LeasesDistinct, c
      <3> QED
        BY <3>1, <2>1, <2>6, <1>i DEF LeasedNotInSlot
    <2>10. SlotFaithful'
      BY <2>3, <2>4, <2>6, <1>i DEF SlotFaithful
    <2>11. EntriesCurrent'
      <3>1. Absent # generation
        BY <1>i DEF TypeOK, Generations, Absent
      <3> QED
        BY <3>1, <2>1, <2>2, <2>3, <1>i DEF EntriesCurrent
    <2>12. IdleBounded'
      BY <2>2, <1>i DEF IdleBounded
    <2> QED
      BY <2>7, <2>8, <2>9, <2>10, <2>11, <2>12
  <1> USE <1>i DEF TypeOK, Leases, SlotsDistinct, LeasesDistinct, LeasedNotInSlot,
          EntriesCurrent, DriverKeepsSocket, LeaseFaithful, SlotFaithful,
          IdleBounded, Generations, Absent
  <1>5. ASSUME NEW r \in Requests, Dialed(r) PROVE Rest'
    BY <1>t, <1>5 DEF Dialed, poolVars, history
  <1>6. ASSUME NEW r \in Requests, Established(r) PROVE Rest'
    BY <1>t, <1>6 DEF Established, poolVars, history
  <1>7. ASSUME NEW r \in Requests, PollDriver(r) PROVE Rest'
    BY <1>t, <1>7, SMTT(30) DEF PollDriver, Shut, poolVars, history
  <1>8. ASSUME NEW r \in Requests, CompleteReusable(r) PROVE Rest'
    BY <1>t, <1>8 DEF CompleteReusable, Completed, poolVars, connVars, history
  <1>9. ASSUME NEW r \in Requests, NEW cause \in Causes, CompleteDirty(r, cause)
        PROVE  Rest'
    BY <1>t, <1>9, SMTT(30) DEF CompleteDirty, Completed, Shut, poolVars, history
  <1>10. ASSUME Clear PROVE Rest'
    BY <1>t, <1>10 DEF Clear, Shut, history
  <1>11. ASSUME NEW c \in Conns, ConnStep(c) PROVE Rest'
    BY <1>t, <1>11, SMTT(30) DEF ConnStep, PeerCloses, DriverEnds, poolVars, history
  <1>12. ASSUME UNCHANGED vars PROVE Rest'
    BY <1>12 DEF vars
  <1> HIDE <1>i DEF Rest, TypeOK, Leases, SlotsDistinct, LeasesDistinct,
          LeasedNotInSlot, EntriesCurrent, DriverKeepsSocket, LeaseFaithful,
          SlotFaithful, IdleBounded, Generations, Absent
  <1>13. Rest'
    BY <1>1, <1>2, <1>3a, <1>3b, <1>4, <1>5, <1>6, <1>7, <1>8, <1>9, <1>10,
       <1>11, <1>12 DEF Next, RequestStep
  <1> QED
    BY <1>t, <1>13 DEF IInv, Rest

\* Every reachable state satisfies the inductive invariant.
THEOREM PoolInvariant == Spec => []IInv
  BY InvInit, InvStep, PTL DEF Spec

\* No connection ever has two owners: Pool::acquire, Pool::release and
\* clear_pool move it between one idle slot and one lease.
THEOREM PoolExclusiveOwnership == Spec => []ExclusiveOwnership
  <1>1. IInv => ExclusiveOwnership
    BY DEF IInv, ExclusiveOwnership, LeasedNotIdle, LeasedNotInSlot, IdleConns
  <1> QED
    BY <1>1, PoolInvariant, PTL

\* clear_pool is a barrier, for any number of requests that establish or use
\* connections while it runs.
THEOREM PoolClearIsABarrier == Spec => []ClearIsABarrier
  <1>1. IInv => ClearIsABarrier
    BY DEF IInv, ClearIsABarrier, SlotFaithful, IdleConns
  <1> QED
    BY <1>1, PoolInvariant, PTL

\* The idle limit and the separation of keys hold for every limit, also zero.
THEOREM PoolIdleBoundedAndIsolated == Spec => [](IdleBounded /\ KeyIsolation)
  <1>1. IInv => IdleBounded /\ KeyIsolation
    BY DEF IInv, KeyIsolation, SlotFaithful, IdleConns
  <1> QED
    BY <1>1, PoolInvariant, PTL

\* A shut connection never comes back to life: no step of any request reopens
\* its socket or restarts its driver.
THEOREM PoolNoResurrection == Spec => NoResurrection
  <1>1. ASSUME IInv, [Next]_vars
        PROVE  [\A c \in Conns :
                    socket[c] = "shut" => socket'[c] = "shut" /\ ~IsLive(c)']_vars
    <2>1. IInv'
      BY <1>1, InvStep
    <2> SUFFICES ASSUME NEW c \in Conns, socket[c] = "shut", Next
                 PROVE  socket'[c] = "shut"
      BY <1>1, <2>1 DEF IInv, DriverKeepsSocket, IsLive, TypeOK
    <2>2. ASSUME NEW r \in Requests, RequestStep(r) PROVE socket'[c] = "shut"
      BY <2>2, <1>1
         DEF RequestStep, Acquire, BeginConnect, Dialed, Established, DropLease,
             PollDriver, CompleteReusable, CompleteDirty, Park, Reject, Shut,
             connVars, IInv, TypeOK
    <2>3. ASSUME NEW d \in Conns, ConnStep(d) PROVE socket'[c] = "shut"
      BY <2>3 DEF ConnStep, PeerCloses, DriverEnds
    <2>4. ASSUME Clear PROVE socket'[c] = "shut"
      BY <2>4 DEF Clear, Shut
    <2> QED
      BY <2>2, <2>3, <2>4 DEF Next
  <1> QED
    BY <1>1, PoolInvariant, PTL DEF Spec, NoResurrection

-----------------------------------------------------------------------------
(* The pool implements ConnectionLifecycle.                                  *)
Leased(c) == \E r \in Requests : lease[r].at # "none" /\ lease[r].conn = c
InSlot(c) == \E k \in Keys : \E i \in 1..Len(idle[k]) : idle[k][i] = c

\* The four statuses exclude one another, because owners do.
StatusDetermined ==
    \A c \in Conns :
        /\ InSlot(c) => Status(c) = "idle" /\ ~Leased(c)
        /\ Leased(c) => Status(c) = "leased" /\ ~InSlot(c)
        /\ socket[c] = "unused" => Status(c) = "unused"
        /\ socket[c] # "unused" /\ ~InSlot(c) /\ ~Leased(c) => Status(c) = "closed"

\* What a slot, a lease and a socket say about a connection is one status.
LEMMA StatusIsDetermined == IInv => StatusDetermined
  BY DEF IInv, StatusDetermined, Status, InSlot, Leased, IdleConns, LeasedNotInSlot,
         LeaseFaithful, SlotFaithful

\* A step that moves one connection is a step of the abstract map at one point.
LEMMA StatusAt ==
  ASSUME NEW c \in Conns, NEW s,
         Status(c)' = s, \A d \in Conns \ {c} : Status(d)' = Status(d)
  PROVE  [d \in Conns |-> Status(d)]' = [[d \in Conns |-> Status(d)] EXCEPT ![c] = s]
  OBVIOUS

\* Every step of the pool is a step of the lifecycle, or none.
LEMMA LifecycleStep ==
  IInv /\ IInv' /\ [Next]_vars => [Lifecycle!LifecycleNext]_(Lifecycle!lifecycle)
  <1> SUFFICES ASSUME IInv, IInv', [Next]_vars
               PROVE  [Lifecycle!LifecycleNext]_(Lifecycle!lifecycle)
    OBVIOUS
  <1> DEFINE status == [d \in Conns |-> Status(d)]
  <1>s. StatusDetermined /\ StatusDetermined'
    BY StatusIsDetermined, PTL
  <1>i. TypeOK /\ SlotsDistinct /\ LeasesDistinct /\ LeasedNotInSlot /\ LeaseFaithful
        /\ SlotFaithful
    BY DEF IInv
  <1>j. TypeOK' /\ LeaseFaithful' /\ SlotFaithful'
    BY DEF IInv
  \* A step after which every connection has the owner it had before.
  <1>k. ASSUME UNCHANGED <<opened, generation>>,
               \A d \in Conns : /\ Leased(d)' = Leased(d)
                                /\ InSlot(d)' = InSlot(d)
                                /\ (socket'[d] = "unused") = (socket[d] = "unused")
        PROVE  [Lifecycle!LifecycleNext]_(Lifecycle!lifecycle)
    <2>1. \A d \in Conns : Status(d)' = Status(d)
      BY <1>s, <1>k DEF StatusDetermined
    <2>2. status' = status
      BY <2>1
    <2> QED
      BY <2>2, <1>k DEF Lifecycle!lifecycle
  <1>1. ASSUME NEW r \in Requests, NEW k \in Keys, Acquire(r, k)
        PROVE  Lifecycle!LifecycleNext
    <2>0. PICK c \in Conns : c = idle[k][Len(idle[k])]
      BY <1>1, <1>i DEF Acquire, TypeOK
    <2>1. /\ Len(idle[k]) \in 1..Len(idle[k])
          /\ lease[r].at = "none" /\ lease'[r].at = "held" /\ lease'[r].conn = c
          /\ \A q \in Requests \ {r} : lease'[q] = lease[q]
          /\ UNCHANGED <<opened, generation, socket>>
      BY <1>1, <1>i, <2>0 DEF Acquire, NewLease, TypeOK, connVars, history
    <2>2. idle'[k] = SubSeq(idle[k], 1, Len(idle[k]) - 1)
          /\ \A l \in Keys \ {k} : idle'[l] = idle[l]
      BY <1>1, <1>i DEF Acquire, TypeOK
    <2>3. /\ Len(idle'[k]) = Len(idle[k]) - 1
          /\ \A i \in 1..(Len(idle[k]) - 1) : idle'[k][i] = idle[k][i]
      <3>1. idle[k] \in Seq(Conns) /\ Len(idle[k]) \in Nat /\ Len(idle[k]) >= 1
        BY <1>i, <2>1 DEF TypeOK
      <3> QED
        BY <3>1, <2>2
    <2>4. InSlot(c) /\ Leased(c)'
      BY <2>0, <2>1 DEF InSlot, Leased
    <2>5. \A d \in Conns \ {c} : Leased(d)' = Leased(d)
      BY <2>1 DEF Leased
    <2>6. \A d \in Conns \ {c} : InSlot(d)' = InSlot(d)
      <3> SUFFICES ASSUME NEW d \in Conns \ {c} PROVE InSlot(d)' = InSlot(d)
        OBVIOUS
      <3>1. ASSUME InSlot(d) PROVE InSlot(d)'
        <4>0. PICK l \in Keys : \E i \in 1..Len(idle[l]) : idle[l][i] = d
          BY <3>1 DEF InSlot
        <4>1. PICK i \in 1..Len(idle[l]) : idle[l][i] = d
          BY <4>0
        <4>2. CASE l = k
          <5>1. i \in 1..(Len(idle[k]) - 1)
            BY <4>1, <4>2, <2>0, <2>1
          <5> QED
            BY <5>1, <4>1, <4>2, <2>3 DEF InSlot
        <4>3. CASE l # k
          BY <4>1, <4>3, <2>2 DEF InSlot
        <4> QED
          BY <4>2, <4>3
      <3>2. ASSUME InSlot(d)' PROVE InSlot(d)
        <4>0. PICK l \in Keys : \E i \in 1..Len(idle'[l]) : idle'[l][i] = d
          BY <3>2 DEF InSlot
        <4>1. PICK i \in 1..Len(idle'[l]) : idle'[l][i] = d
          BY <4>0
        <4>2. i \in 1..Len(idle[l]) /\ idle[l][i] = d
          BY <4>1, <2>1, <2>2, <2>3
        <4> QED
          BY <4>2 DEF InSlot
      <3> QED
        BY <3>1, <3>2 DEF InSlot
    <2>7. Status(c) = "idle" /\ Status(c)' = "leased"
      BY <2>1, <2>4, <1>s DEF StatusDetermined
    <2>8. \A d \in Conns \ {c} : Status(d)' = Status(d)
      BY <2>1, <2>5, <2>6, <1>s DEF StatusDetermined
    <2>9. Lifecycle!Taken(c)
      BY <2>1, <2>7, <2>8, StatusAt DEF Lifecycle!Taken
    <2> QED
      BY <2>1, <2>9 DEF Lifecycle!LifecycleNext
  <1>2. ASSUME NEW r \in Requests, NEW k \in Keys, NEW c \in Conns,
               BeginConnect(r, k, c)
        PROVE  Lifecycle!LifecycleNext
    <2>1. /\ lease[r].at = "none" /\ lease'[r].at # "none" /\ lease'[r].conn = c
          /\ \A q \in Requests \ {r} : lease'[q] = lease[q]
          /\ socket[c] = "unused"
          /\ \A d \in Conns \ {c} : socket'[d] = socket[d]
          /\ opened' = [opened EXCEPT ![c] = generation]
          /\ UNCHANGED <<idle, generation>>
      BY <1>2, <1>i DEF BeginConnect, NewLease, TypeOK, poolVars
    <2>2. Status(c) = "unused" /\ Status(c)' = "leased"
      BY <2>1, <1>s DEF StatusDetermined, Leased
    <2>3. \A d \in Conns \ {c} : Leased(d)' = Leased(d) /\ InSlot(d)' = InSlot(d)
      BY <2>1 DEF Leased, InSlot
    <2>4. \A d \in Conns \ {c} : Status(d)' = Status(d)
      BY <2>1, <2>3, <1>s DEF StatusDetermined
    <2>5. Lifecycle!Open(c)
      BY <2>1, <2>2, <2>4, StatusAt DEF Lifecycle!Open
    <2> QED
      BY <2>5 DEF Lifecycle!LifecycleNext
  \* A lease that ends by shutting its connection closes it.
  <1>3. ASSUME NEW r \in Requests, lease[r].at # "none", Shut({lease[r].conn}),
               lease' = [lease EXCEPT ![r] = NoLease],
               UNCHANGED <<generation, idle, opened>>
        PROVE  Lifecycle!LifecycleNext
    <2>0. PICK c \in Conns : c = lease[r].conn
      BY <1>3, <1>i DEF TypeOK
    <2>1. /\ lease'[r].at = "none"
          /\ \A q \in Requests \ {r} : lease'[q] = lease[q]
          /\ socket'[c] = "shut"
          /\ \A d \in Conns \ {c} : socket'[d] = socket[d]
      BY <1>3, <1>i, <2>0 DEF NoLease, Shut, TypeOK
    <2>2. \A q \in Requests \ {r} : lease[q].at # "none" => lease[q].conn # c
      BY <1>3, <1>i, <2>0 DEF LeasesDistinct
    <2>3. Leased(c) /\ ~Leased(c)' /\ ~InSlot(c)'
      BY <1>3, <2>0, <2>1, <2>2, <1>i DEF Leased, InSlot, LeasedNotInSlot
    <2>4. \A d \in Conns \ {c} : Leased(d)' = Leased(d) /\ InSlot(d)' = InSlot(d)
      BY <1>3, <2>0, <2>1 DEF Leased, InSlot
    <2>5. Status(c) = "leased" /\ Status(c)' = "closed"
      BY <2>1, <2>3, <1>s DEF StatusDetermined
    <2>6. \A d \in Conns \ {c} : Status(d)' = Status(d)
      BY <2>1, <2>4, <1>s DEF StatusDetermined
    <2>7. Lifecycle!Closed(c)
      BY <1>3, <2>1, <2>5, <2>6, StatusAt DEF Lifecycle!Closed
    <2> QED
      BY <2>1, <2>7 DEF Lifecycle!LifecycleNext
  <1>4. ASSUME NEW r \in Requests, DropLease(r) \/ Reject(r)
        PROVE  Lifecycle!LifecycleNext
    BY <1>3, <1>4 DEF DropLease, Reject, poolVars, history
  <1>5. ASSUME NEW r \in Requests, Park(r) PROVE Lifecycle!LifecycleNext
    <2>0. PICK c \in Conns, k \in Keys : c = lease[r].conn /\ k = lease[r].key
      BY <1>5, <1>i DEF Park, TypeOK
    <2>1. /\ lease[r].at # "none"
          /\ lease'[r].at = "none"
          /\ \A q \in Requests \ {r} : lease'[q] = lease[q]
          /\ UNCHANGED <<generation, opened, socket>>
      BY <1>5, <1>i, <2>0 DEF Park, NoLease, TypeOK, connVars, history
    <2>2. opened[c] = generation
      BY <1>5, <2>0, <2>1, <1>i DEF Park, Reusable, LeaseFaithful
    <2>3. /\ Len(idle[k]) \in Nat /\ Len(idle'[k]) = Len(idle[k]) + 1
          /\ idle'[k][Len(idle[k]) + 1] = c
          /\ \A i \in 1..Len(idle[k]) : idle'[k][i] = idle[k][i]
          /\ \A l \in Keys \ {k} : idle'[l] = idle[l]
      BY <1>5, <2>0, <2>1, <1>i DEF Park, TypeOK
    <2>4. Leased(c)
      BY <2>0, <2>1 DEF Leased
    <2>5. InSlot(c)'
      BY <2>1, <2>3 DEF InSlot
    <2>6. \A d \in Conns \ {c} : Leased(d)' = Leased(d)
      BY <2>0, <2>1 DEF Leased
    <2>7. \A d \in Conns \ {c} : InSlot(d)' = InSlot(d)
      <3> SUFFICES ASSUME NEW d \in Conns \ {c} PROVE InSlot(d)' = InSlot(d)
        OBVIOUS
      <3>1. ASSUME InSlot(d) PROVE InSlot(d)'
        BY <3>1, <2>1, <2>3 DEF InSlot
      <3>2. ASSUME InSlot(d)' PROVE InSlot(d)
        <4>0. PICK l \in Keys : \E i \in 1..Len(idle'[l]) : idle'[l][i] = d
          BY <3>2 DEF InSlot
        <4>1. PICK i \in 1..Len(idle'[l]) : idle'[l][i] = d
          BY <4>0
        <4>2. i \in 1..Len(idle[l]) /\ idle[l][i] = d
          BY <4>1, <2>1, <2>3
        <4> QED
          BY <4>2 DEF InSlot
      <3> QED
        BY <3>1, <3>2 DEF InSlot
    <2>8. Status(c) = "leased" /\ Status(c)' = "idle"
      BY <2>1, <2>4, <2>5, <1>s DEF StatusDetermined
    <2>9. \A d \in Conns \ {c} : Status(d)' = Status(d)
      BY <2>1, <2>6, <2>7, <1>s DEF StatusDetermined
    <2>10. Lifecycle!Parked(c)
      BY <2>1, <2>2, <2>8, <2>9, StatusAt DEF Lifecycle!Parked
    <2> QED
      BY <2>1, <2>10 DEF Lifecycle!LifecycleNext
  <1>6. ASSUME Clear PROVE Lifecycle!LifecycleNext
    <2>1. /\ generation' = generation + 1 /\ UNCHANGED <<lease, opened>>
          /\ \A d \in Conns : ~InSlot(d)'
          /\ \A d \in Conns : Leased(d)' = Leased(d)
      BY <1>6 DEF Clear, InSlot, Leased, history
    <2>2. \A d \in Conns : socket'[d] = IF InSlot(d) THEN "shut" ELSE socket[d]
      BY <1>6 DEF Clear, Shut, InSlot, IdleConns
    <2>3. \A d \in Conns : InSlot(d) => socket[d] # "unused"
      BY <1>i DEF InSlot, SlotFaithful
    <2>4. \A d \in Conns : Status(d)' = IF Status(d) = "idle" THEN "closed" ELSE Status(d)
      BY <2>1, <2>2, <2>3, <1>s DEF StatusDetermined
    <2>5. Lifecycle!Flush
      BY <2>1, <2>4 DEF Lifecycle!Flush
    <2> QED
      BY <2>5 DEF Lifecycle!LifecycleNext
  \* The other steps leave every connection with its owner.
  <1>7. ASSUME NEW r \in Requests, Established(r) \/ CompleteReusable(r)
                 \/ \E cause \in Causes : CompleteDirty(r, cause)
        PROVE  [Lifecycle!LifecycleNext]_(Lifecycle!lifecycle)
    <2>1. /\ lease[r].at # "none" /\ lease'[r].at # "none"
          /\ lease'[r].conn = lease[r].conn
          /\ \A q \in Requests \ {r} : lease'[q] = lease[q]
          /\ UNCHANGED <<idle, opened, generation>>
      BY <1>7, <1>i DEF Established, CompleteReusable, CompleteDirty, Completed,
                        TypeOK, poolVars, history
    <2>2. \A d \in Conns : (socket'[d] = "unused") = (socket[d] = "unused")
      BY <1>7, <1>i, <2>1 DEF Established, CompleteReusable, CompleteDirty, Shut,
                        LeaseFaithful, connVars
    <2>3. \A d \in Conns : Leased(d)' = Leased(d) /\ InSlot(d)' = InSlot(d)
      BY <2>1 DEF Leased, InSlot
    <2> QED
      BY <1>k, <2>1, <2>2, <2>3
  <1>8. ASSUME NEW r \in Requests, Dialed(r) \/ PollDriver(r)
        PROVE  [Lifecycle!LifecycleNext]_(Lifecycle!lifecycle)
    <2>1. /\ lease[r].at # "none"
          /\ UNCHANGED <<idle, lease, opened, generation>>
      BY <1>8 DEF Dialed, PollDriver, poolVars, history
    <2>2. \A d \in Conns : (socket'[d] = "unused") = (socket[d] = "unused")
      BY <1>8, <1>i, <2>1 DEF Dialed, PollDriver, Shut, LeaseFaithful, TypeOK
    <2> QED
      BY <1>k, <2>1, <2>2 DEF Leased, InSlot
  <1>9. ASSUME (\E c \in Conns : ConnStep(c)) \/ UNCHANGED vars
        PROVE  [Lifecycle!LifecycleNext]_(Lifecycle!lifecycle)
    <2>1. UNCHANGED <<idle, lease, opened, generation, socket>>
      BY <1>9 DEF ConnStep, PeerCloses, DriverEnds, poolVars, history, vars
    <2> QED
      BY <1>k, <2>1 DEF Leased, InSlot
  <1> QED
    BY <1>1, <1>2, <1>4, <1>5, <1>6, <1>7, <1>8, <1>9 DEF Next, RequestStep

\* The pool keeps the promises of ConnectionLifecycle: a connection is used by
\* one request at a time, is parked only in the epoch in which it was opened,
\* and is closed for good.
THEOREM PoolImplementsLifecycle == Spec => ImplementsLifecycle
  <1>1. Init => Lifecycle!LifecycleInit
    BY DEF Init, Lifecycle!LifecycleInit, Status
  <1>2. IInv /\ [Next]_vars => [Lifecycle!LifecycleNext]_(Lifecycle!lifecycle)
    BY InvStep, LifecycleStep
  <1> QED
    BY <1>1, <1>2, PoolInvariant, PTL DEF Spec, ImplementsLifecycle, Lifecycle!LifecycleSpec

\* All that the pool promises of its idle connections, for every number of
\* connections, requests, keys and idle places.
THEOREM PoolKeepsPromises == Spec => []PoolPromises
  BY PoolExclusiveOwnership, PoolClearIsABarrier, PoolIdleBoundedAndIsolated, PTL
     DEF PoolPromises

\* The life of a connection goes one way, from dialing to shut.
THEOREM PoolLifecycleKept == Spec => LifecycleKept
  BY PoolNoResurrection, PoolImplementsLifecycle DEF LifecycleKept

-----------------------------------------------------------------------------
(* No descriptor is left behind: what is open has an owner.                  *)
OpenIsOwned == \A c \in Conns : socket[c] \in {"dialing", "open"} => InSlot(c) \/ Leased(c)

\* The owners change hands with the connection, and the last one shuts it.
LEMMA OpenIsOwnedStep == IInv /\ OpenIsOwned /\ [Next]_vars => OpenIsOwned'
  <1> SUFFICES ASSUME IInv, OpenIsOwned, [Next]_vars, NEW c \in Conns,
                      socket'[c] \in {"dialing", "open"}
               PROVE  InSlot(c)' \/ Leased(c)'
    BY DEF OpenIsOwned
  <1>t. TypeOK
    BY DEF IInv
  <1>k. ASSUME idle' = idle, InSlot(c) PROVE InSlot(c)'
    BY <1>k DEF InSlot
  <1>l. ASSUME NEW r \in Requests, \A q \in Requests \ {r} : lease'[q] = lease[q], Leased(c),
               lease[r].at # "none" /\ lease[r].conn = c => lease'[r].at # "none" /\ lease'[r].conn = c
        PROVE  Leased(c)'
    BY <1>l DEF Leased
  <1>1. ASSUME NEW r \in Requests, NEW k \in Keys, Acquire(r, k) PROVE InSlot(c)' \/ Leased(c)'
    <2> DEFINE n == Len(idle[k])
    <2>1. /\ socket' = socket /\ lease[r].at = "none" /\ n \in Nat \ {0}
          /\ lease'[r].at = "held" /\ lease'[r].conn = idle[k][n]
          /\ \A q \in Requests \ {r} : lease'[q] = lease[q]
          /\ \A l \in Keys \ {k} : idle'[l] = idle[l]
          /\ idle'[k] = SubSeq(idle[k], 1, n - 1) /\ idle[k] \in Seq(Conns)
      BY <1>1, <1>t DEF Acquire, NewLease, connVars, TypeOK
    <2>2. Len(idle'[k]) = n - 1 /\ \A i \in 1..(n - 1) : idle'[k][i] = idle[k][i]
      BY <2>1
    <2>3. CASE Leased(c)
      BY <1>l, <2>1, <2>3
    <2>4. ASSUME NEW l \in Keys, NEW i \in 1..Len(idle[l]), idle[l][i] = c
          PROVE  InSlot(c)' \/ Leased(c)'
      <3>1. CASE l # k
        BY <2>1, <2>4, <3>1 DEF InSlot
      <3>2. CASE l = k /\ i = n
        BY <2>1, <2>4, <3>2 DEF Leased
      <3>3. CASE l = k /\ i # n
        <4>1. i \in 1..(n - 1)
          BY <2>1, <3>3
        <4> QED
          BY <2>1, <2>2, <2>4, <3>3, <4>1 DEF InSlot
      <3> QED
        BY <3>1, <3>2, <3>3
    <2> QED
      BY <2>1, <2>3, <2>4 DEF OpenIsOwned, InSlot
  <1>2. ASSUME NEW r \in Requests, NEW k \in Keys, NEW d \in Conns, BeginConnect(r, k, d)
        PROVE  InSlot(c)' \/ Leased(c)'
    <2>1. /\ lease[r].at = "none" /\ lease'[r].at = "connecting" /\ lease'[r].conn = d
          /\ \A q \in Requests \ {r} : lease'[q] = lease[q]
          /\ idle' = idle /\ (c # d => socket'[c] = socket[c])
      BY <1>2, <1>t DEF BeginConnect, NewLease, poolVars, TypeOK
    <2>2. CASE c = d
      BY <2>1, <2>2 DEF Leased
    <2> QED
      BY <1>k, <1>l, <2>1, <2>2 DEF OpenIsOwned
  <1>3. ASSUME NEW r \in Requests,
               \/ Dialed(r) \/ Established(r) \/ PollDriver(r) \/ CompleteReusable(r)
               \/ \E cause \in Causes : CompleteDirty(r, cause)
        PROVE  InSlot(c)' \/ Leased(c)'
    <2>1. /\ idle' = idle /\ \A q \in Requests \ {r} : lease'[q] = lease[q]
          /\ lease[r].at # "none" /\ lease'[r].at # "none" /\ lease'[r].conn = lease[r].conn
          /\ c # lease[r].conn => socket'[c] = socket[c]
      BY <1>3, <1>t DEF Dialed, Established, PollDriver, CompleteReusable, CompleteDirty, Shut,
         Completed, poolVars, connVars, TypeOK
    <2>2. CASE c = lease[r].conn
      BY <2>1, <2>2 DEF Leased
    <2> QED
      BY <1>k, <1>l, <2>1, <2>2 DEF OpenIsOwned
  <1>4. ASSUME NEW r \in Requests, DropLease(r) \/ Reject(r) PROVE InSlot(c)' \/ Leased(c)'
    <2>1. /\ idle' = idle /\ \A q \in Requests \ {r} : lease'[q] = lease[q]
          /\ c # lease[r].conn /\ socket'[c] = socket[c]
      BY <1>4, <1>t DEF DropLease, Reject, Shut, poolVars, TypeOK
    <2> QED
      BY <1>k, <1>l, <2>1 DEF OpenIsOwned
  <1>5. ASSUME NEW r \in Requests, Park(r) PROVE InSlot(c)' \/ Leased(c)'
    <2>1. PICK k \in Keys : k = lease[r].key
      BY <1>5, <1>t DEF Park, TypeOK
    <2>2. /\ socket' = socket /\ idle[k] \in Seq(Conns) /\ lease[r].conn \in Conns
          /\ \A q \in Requests \ {r} : lease'[q] = lease[q]
          /\ \A l \in Keys \ {k} : idle'[l] = idle[l]
          /\ idle'[k] = Append(idle[k], lease[r].conn)
      BY <1>5, <1>t, <2>1 DEF Park, connVars, TypeOK
    <2>3. /\ Len(idle'[k]) = Len(idle[k]) + 1 /\ idle'[k][Len(idle[k]) + 1] = lease[r].conn
          /\ \A i \in 1..Len(idle[k]) : i \in 1..Len(idle'[k]) /\ idle'[k][i] = idle[k][i]
          /\ Len(idle[k]) + 1 \in 1..Len(idle'[k])
      BY <2>2
    <2>4. CASE InSlot(c)
      <3>1. PICK l \in Keys : \E i \in 1..Len(idle[l]) : idle[l][i] = c
        BY <2>4 DEF InSlot
      <3>2. CASE l = k
        BY <2>3, <3>1, <3>2 DEF InSlot
      <3>3. CASE l # k
        BY <2>2, <3>1, <3>3 DEF InSlot
      <3> QED
        BY <3>2, <3>3
    <2>5. CASE Leased(c) /\ lease[r].conn = c
      BY <2>2, <2>3, <2>5 DEF InSlot
    <2>6. CASE Leased(c) /\ lease[r].conn # c
      BY <1>l, <2>2, <2>6
    <2> QED
      BY <2>2, <2>4, <2>5, <2>6 DEF OpenIsOwned
  <1>6. ASSUME Clear PROVE InSlot(c)' \/ Leased(c)'
    <2>1. ~InSlot(c) /\ socket'[c] = socket[c] /\ lease' = lease
      BY <1>6, <1>t DEF Clear, Shut, InSlot, IdleConns, TypeOK
    <2> QED
      BY <2>1 DEF OpenIsOwned, Leased
  <1>7. ASSUME (\E d \in Conns : ConnStep(d)) \/ UNCHANGED vars PROVE InSlot(c)' \/ Leased(c)'
    BY <1>7 DEF ConnStep, PeerCloses, DriverEnds, poolVars, vars, OpenIsOwned, InSlot, Leased
  <1> QED
    BY <1>1, <1>2, <1>3, <1>4, <1>5, <1>6, <1>7 DEF Next, RequestStep

\* No descriptor leaks, whatever ends the use of a connection and wherever
\* clear_pool falls: what is open is in one idle vector or in one lease, and
\* what waits in the pool is open.
THEOREM PoolNoSocketLeak == Spec => []NoSocketLeak
  <1>1. Init => OpenIsOwned
    BY DEF Init, OpenIsOwned
  <1>2. IInv /\ OpenIsOwned => NoSocketLeak
    BY DEF NoSocketLeak, OpenIsOwned, Owned, InSlot, Leased, IdleConns, IInv, SlotFaithful
  <1> QED
    BY <1>1, <1>2, InvInit, InvStep, OpenIsOwnedStep, PTL DEF Spec

----------------------------------------------------------------------------
(***************************************************************************)
(* The transport (Transport) implements ConnectionPool, and no connection   *)
(* with unread bytes is ever parked.                                        *)
(***************************************************************************)

\* Every request that has been sent has a pool key.
TargetSet == \A r \in Requests : pc[r] # "new" => target[r] \in Keys

\* A lease marked clean belongs to a connection whose response was read.
CleanIsDrained ==
    \A r \in Requests : lease[r].at = "completed" /\ lease[r].terminal = "CleanEof" =>
        ~responding[lease[r].conn]

SlotsDrained == \A k \in Keys : \A i \in 1..Len(idle[k]) : ~responding[idle[k][i]]

TaskTypeOK ==
    /\ pc \in [Requests -> Phases]
    /\ target \in [Requests -> Keys \cup {NoKey}]
    /\ timeouts \in [Requests -> TimeoutChoices \cup {{}}]
    /\ uploading \in [Conns -> BOOLEAN]
    /\ responding \in [Conns -> BOOLEAN]

TIInv ==
    /\ IInv
    /\ TaskTypeOK
    /\ TargetSet
    /\ LeaseMatchesPhase
    /\ CleanIsDrained
    /\ SlotsDrained

\* Every step of a request task, of the peer and of clear_pool is a step of the
\* pool or leaves its state alone.
LEMMA PoolStep == TargetSet /\ [TNext]_tvars => [Next]_vars
  <1> SUFFICES ASSUME TargetSet, [TNext]_tvars PROVE [Next]_vars
    OBVIOUS
  <1>1. ASSUME NEW r \in Requests, OwnStep(r) PROVE [Next]_vars
    <2>1. ASSUME PopIdle(r) PROVE Next
      <3>1. target[r] \in Keys
        BY <2>1 DEF PopIdle, TargetSet
      <3> QED
        BY <2>1, <3>1 DEF PopIdle, Next, RequestStep
    <2>2. ASSUME StartConnect(r) PROVE Next
      <3>1. target[r] \in Keys
        BY <2>2 DEF StartConnect, TargetSet
      <3> QED
        BY <2>2, <3>1 DEF StartConnect, Next, RequestStep
    <2>3. ASSUME ProbeFails(r) \/ ReadyFails(r) PROVE Next
      BY <2>3 DEF ProbeFails, ReadyFails, Next, RequestStep, Causes
    <2>4. ASSUME Discarded(r) \/ SendFails(r) \/ Released(r) PROVE Next
      BY <2>4 DEF Discarded, SendFails, Released, Next, RequestStep
    <2>5. ASSUME NoIdle(r) \/ ProbePasses(r) \/ \E body \in BOOLEAN : StartExchange(r, body)
          PROVE  UNCHANGED vars
      BY <2>5 DEF NoIdle, ProbePasses, StartExchange
    <2> QED
      BY <1>1, <2>1, <2>2, <2>3, <2>4, <2>5 DEF OwnStep
  <1>2. ASSUME NEW r \in Requests, AwaitedStep(r) PROVE [Next]_vars
    <2>1. ASSUME ConnectFails(r) \/ BuildFails(r) \/ CancelSend(r) PROVE Next
      BY <2>1 DEF ConnectFails, BuildFails, CancelSend, Next, RequestStep
    <2>2. ASSUME ExchangeFails(r) \/ BodyAbandoned(r) PROVE Next
      BY <2>2 DEF ExchangeFails, Abort, BodyAbandoned, Next, RequestStep, Causes
    <2>3. ASSUME StreamReady(r) \/ ConnectionReady(r) \/ DriverFinishes(r) \/ BodyEnds(r)
          PROVE  Next
      BY <2>3 DEF StreamReady, ConnectionReady, DriverFinishes, BodyEnds, Next, RequestStep
    <2>4. ASSUME \/ \E k \in Keys, T \in TimeoutChoices : Send(r, k, T)
                 \/ ReadyPasses(r) \/ ResponseHead(r)
          PROVE  UNCHANGED vars
      BY <2>4 DEF Send, ReadyPasses, ResponseHead
    <2> QED
      BY <1>2, <2>1, <2>2, <2>3, <2>4 DEF AwaitedStep
  <1>3. ASSUME NEW r \in Requests, Deadline(r) PROVE [Next]_vars
    BY <1>3 DEF Deadline, ReadyTimesOut, ConnectTimesOut, HeadTimesOut, Abort,
                Next, RequestStep, Causes
  <1>4. ASSUME NEW c \in Conns, UploadCompletes(c) PROVE UNCHANGED vars
    BY <1>4 DEF UploadCompletes
  <1>5. ASSUME EnvStep PROVE Next
    BY <1>5 DEF EnvStep, Next
  <1>6. ASSUME UNCHANGED tvars PROVE UNCHANGED vars
    BY <1>6 DEF tvars
  <1> QED
    BY <1>1, <1>2, <1>3, <1>4, <1>5, <1>6 DEF TNext

-----------------------------------------------------------------------------
(* What each step of the pool does to the lease of the request that takes it. *)
Others(r) == \A q \in Requests \ {r} : lease'[q] = lease[q]

\* What each pool operation does to the lease of its request.
LEMMA LeaseMoves ==
  ASSUME TypeOK, NEW r \in Requests
  PROVE  /\ \A k \in Keys : Acquire(r, k) =>
                /\ lease[r].at = "none" /\ lease'[r].at = "held" /\ Others(r)
                /\ lease'[r].key = k
         /\ \A k \in Keys, c \in Conns : BeginConnect(r, k, c) =>
                /\ lease[r].at = "none" /\ lease'[r].at = "connecting" /\ Others(r)
                /\ lease'[r].conn = c /\ lease'[r].key = k
         /\ Established(r) =>
                /\ lease[r].at = "connecting" /\ lease'[r].at = "held" /\ Others(r)
                /\ lease'[r].conn = lease[r].conn /\ lease'[r].key = lease[r].key
         /\ DropLease(r) =>
                lease[r].at # "none" /\ lease'[r].at = "none" /\ Others(r)
         /\ \A cause \in Causes : CompleteDirty(r, cause) =>
                /\ lease[r].at = "held" /\ lease'[r].at = "completed" /\ Others(r)
                /\ lease'[r].terminal = "Dirty" /\ lease'[r].conn = lease[r].conn /\ lease'[r].key = lease[r].key
         /\ CompleteReusable(r) =>
                /\ lease[r].at = "held" /\ lease'[r].at = "completed" /\ Others(r)
                /\ lease'[r].conn = lease[r].conn /\ lease'[r].key = lease[r].key
         /\ Park(r) \/ Reject(r) =>
                lease[r].at = "completed" /\ lease'[r].at = "none" /\ Others(r)
  BY DEF TypeOK, Acquire, BeginConnect, Established, DropLease, CompleteDirty,
         CompleteReusable, Park, Reject, NewLease, NoLease, Completed, Others

\* The phase of a request and the state of its lease go together.
Matches(phase, at) ==
    /\ phase \in {"new", "acquire", "connect", "done"} <=> at = "none"
    /\ phase = "dial" <=> at = "connecting"
    /\ phase \in {"discard", "failing", "release"} <=> at = "completed"

\* Every step of the transport keeps the types of the tasks.
LEMMA TaskTypeStep == TaskTypeOK /\ [TNext]_tvars => TaskTypeOK'
  <1> SUFFICES ASSUME TaskTypeOK, [TNext]_tvars PROVE TaskTypeOK'
    OBVIOUS
  <1> USE DEF TaskTypeOK, Phases, Goto
  <1>1. ASSUME NEW r \in Requests, OwnStep(r) PROVE TaskTypeOK'
    <2>1. CASE PopIdle(r) \/ NoIdle(r) \/ ProbePasses(r) \/ ProbeFails(r) \/ Discarded(r)
      BY <2>1 DEF PopIdle, NoIdle, ProbePasses, ProbeFails, Discarded, wireVars
    <2>2. CASE ReadyFails(r) \/ StartConnect(r) \/ SendFails(r) \/ Released(r)
      BY <2>2 DEF ReadyFails, StartConnect, SendFails, Released, wireVars
    <2>3. ASSUME NEW b \in BOOLEAN, StartExchange(r, b) PROVE TaskTypeOK'
      BY <2>3 DEF StartExchange
    <2> QED
      BY <1>1, <2>1, <2>2, <2>3 DEF OwnStep
  <1>2. ASSUME NEW r \in Requests, AwaitedStep(r) PROVE TaskTypeOK'
    <2>1. CASE \E k \in Keys, T \in TimeoutChoices : Send(r, k, T)
      BY <2>1 DEF Send, wireVars
    <2>2. CASE ReadyPasses(r) \/ StreamReady(r) \/ ConnectionReady(r) \/ ConnectFails(r)
      BY <2>2 DEF ReadyPasses, StreamReady, ConnectionReady, ConnectFails, Abort, wireVars, taskVars
    <2>3. CASE BuildFails(r) \/ ResponseHead(r) \/ DriverFinishes(r) \/ ExchangeFails(r)
      BY <2>3 DEF BuildFails, ResponseHead, DriverFinishes, ExchangeFails, Abort, wireVars, taskVars
    <2>4. CASE CancelSend(r) \/ BodyEnds(r) \/ BodyAbandoned(r)
      BY <2>4 DEF CancelSend, BodyEnds, BodyAbandoned, Abort, wireVars, taskVars
    <2> QED
      BY <1>2, <2>1, <2>2, <2>3, <2>4 DEF AwaitedStep
  <1>3. ASSUME NEW r \in Requests, Deadline(r) PROVE TaskTypeOK'
    BY <1>3 DEF Deadline, ReadyTimesOut, ConnectTimesOut, HeadTimesOut, Abort, wireVars
  <1>4. ASSUME NEW c \in Conns, UploadCompletes(c) PROVE TaskTypeOK'
    BY <1>4 DEF UploadCompletes, taskVars
  <1>5. ASSUME EnvStep \/ UNCHANGED tvars PROVE TaskTypeOK'
    BY <1>5 DEF EnvStep, tvars, taskVars, wireVars
  <1> QED
    BY <1>1, <1>2, <1>3, <1>4, <1>5 DEF TNext

\* A task that was sent has a key.
LEMMA TargetStep == TaskTypeOK /\ TargetSet /\ [TNext]_tvars => TargetSet'
  <1> SUFFICES ASSUME TaskTypeOK, TargetSet, [TNext]_tvars PROVE TargetSet'
    OBVIOUS
  <1> USE DEF TaskTypeOK, TargetSet, Goto
  <1>1. ASSUME NEW r \in Requests, OwnStep(r) PROVE TargetSet'
    BY <1>1 DEF OwnStep, PopIdle, NoIdle, ProbePasses, ProbeFails, Discarded, ReadyFails,
                StartConnect, SendFails, Released, StartExchange
  <1>2. ASSUME NEW r \in Requests, AwaitedStep(r) PROVE TargetSet'
    BY <1>2 DEF AwaitedStep, Send, ReadyPasses, StreamReady, ConnectionReady, ConnectFails,
                BuildFails, ResponseHead, DriverFinishes, ExchangeFails, Abort, CancelSend,
                BodyEnds, BodyAbandoned, taskVars
  <1>3. ASSUME NEW r \in Requests, Deadline(r) PROVE TargetSet'
    BY <1>3 DEF Deadline, ReadyTimesOut, ConnectTimesOut, HeadTimesOut, Abort
  <1>4. ASSUME (\E c \in Conns : UploadCompletes(c)) \/ EnvStep \/ UNCHANGED tvars
        PROVE  TargetSet'
    BY <1>4 DEF UploadCompletes, EnvStep, tvars, taskVars
  <1> QED
    BY <1>1, <1>2, <1>3, <1>4 DEF TNext

\* The lease of a request changes only together with its phase.
LEMMA PhaseStep ==
  TypeOK /\ TaskTypeOK /\ TargetSet /\ LeaseMatchesPhase /\ [TNext]_tvars
    => LeaseMatchesPhase'
  <1> SUFFICES ASSUME TypeOK, TaskTypeOK, TargetSet, LeaseMatchesPhase, [TNext]_tvars
               PROVE  LeaseMatchesPhase'
    OBVIOUS
  <1>m. \A q \in Requests : Matches(pc[q], lease[q].at)
    BY DEF LeaseMatchesPhase, Matches
  \* A step of r that moves pc[r] and lease[r] to a matching pair is enough.
  <1>s. ASSUME NEW r \in Requests, NEW phase, Goto(r, phase), Others(r),
               Matches(phase, lease'[r].at)
        PROVE  LeaseMatchesPhase'
    BY <1>s, <1>m DEF Goto, Others, LeaseMatchesPhase, Matches, TaskTypeOK
  <1>u. ASSUME NEW r \in Requests, NEW phase, Goto(r, phase), lease' = lease,
               Matches(phase, lease[r].at)
        PROVE  LeaseMatchesPhase'
    BY <1>s, <1>u DEF Others
  <1>1. ASSUME NEW r \in Requests, OwnStep(r) PROVE LeaseMatchesPhase'
    <2>0. Matches(pc[r], lease[r].at)
      BY <1>m
    <2>1. ASSUME PopIdle(r) PROVE LeaseMatchesPhase'
      <3>1. target[r] \in Keys
        BY <2>1 DEF PopIdle, TargetSet
      <3> QED
        BY <2>1, <3>1, LeaseMoves, <1>s DEF PopIdle, Matches
    <2>2. ASSUME StartConnect(r) PROVE LeaseMatchesPhase'
      <3>1. target[r] \in Keys
        BY <2>2 DEF StartConnect, TargetSet
      <3> QED
        BY <2>2, <3>1, LeaseMoves, <1>s DEF StartConnect, Matches
    <2>3. ASSUME ProbeFails(r) \/ ReadyFails(r) PROVE LeaseMatchesPhase'
      BY <2>3, LeaseMoves, <1>s DEF ProbeFails, ReadyFails, Matches, Causes
    <2>4. ASSUME Discarded(r) PROVE LeaseMatchesPhase'
      BY <2>4, LeaseMoves, <1>s DEF Discarded, Matches
    <2>5. ASSUME SendFails(r) \/ Released(r) PROVE LeaseMatchesPhase'
      BY <2>5, LeaseMoves, <1>s DEF SendFails, Released, Matches
    <2>6. ASSUME NoIdle(r) PROVE LeaseMatchesPhase'
      BY <2>0, <2>6, <1>u DEF NoIdle, vars, Matches
    <2>7. ASSUME ProbePasses(r) PROVE LeaseMatchesPhase'
      BY <2>0, <2>7, <1>u DEF ProbePasses, vars, Matches
    <2>8. ASSUME NEW body \in BOOLEAN, StartExchange(r, body) PROVE LeaseMatchesPhase'
      BY <2>0, <2>8, <1>u DEF StartExchange, vars, Matches
    <2> QED
      BY <1>1, <2>1, <2>2, <2>3, <2>4, <2>5, <2>6, <2>7, <2>8 DEF OwnStep
  <1>2. ASSUME NEW r \in Requests, AwaitedStep(r) PROVE LeaseMatchesPhase'
    <2>0. Matches(pc[r], lease[r].at)
      BY <1>m
    <2>1. ASSUME ConnectFails(r) \/ BuildFails(r) \/ CancelSend(r) PROVE LeaseMatchesPhase'
      BY <2>1, LeaseMoves, <1>s DEF ConnectFails, BuildFails, CancelSend, Matches
    <2>2. ASSUME ExchangeFails(r) PROVE LeaseMatchesPhase'
      BY <2>2, LeaseMoves, <1>s DEF ExchangeFails, Abort, Matches, Causes
    <2>3. ASSUME BodyAbandoned(r) PROVE LeaseMatchesPhase'
      BY <2>3, LeaseMoves, <1>s DEF BodyAbandoned, Matches, Causes
    <2>4. ASSUME BodyEnds(r) PROVE LeaseMatchesPhase'
      BY <2>4, LeaseMoves, <1>s DEF BodyEnds, Matches
    <2>5. ASSUME ConnectionReady(r) PROVE LeaseMatchesPhase'
      BY <2>5, LeaseMoves, <1>s DEF ConnectionReady, Matches
    <2>6. ASSUME StreamReady(r) \/ DriverFinishes(r) PROVE LeaseMatchesPhase'
      BY <2>6 DEF StreamReady, DriverFinishes, Dialed, PollDriver, taskVars, LeaseMatchesPhase
    <2>7. ASSUME ReadyPasses(r) \/ ResponseHead(r)
          PROVE LeaseMatchesPhase'
      BY <2>0, <2>7, <1>u DEF ReadyPasses, ResponseHead, vars, Matches
    <2>8. ASSUME NEW k \in Keys, NEW T \in TimeoutChoices, Send(r, k, T)
          PROVE  LeaseMatchesPhase'
      BY <2>0, <2>8, <1>u DEF Send, vars, Matches
    <2> QED
      BY <1>2, <2>1, <2>2, <2>3, <2>4, <2>5, <2>6, <2>7, <2>8 DEF AwaitedStep
  <1>3. ASSUME NEW r \in Requests, Deadline(r) PROVE LeaseMatchesPhase'
    <2>0. Matches(pc[r], lease[r].at)
      BY <1>m
    <2>1. ASSUME ReadyTimesOut(r) \/ HeadTimesOut(r) PROVE LeaseMatchesPhase'
      BY <2>1, LeaseMoves, <1>s DEF ReadyTimesOut, HeadTimesOut, Abort, Matches, Causes
    <2>2. ASSUME ConnectTimesOut(r), DropLease(r) PROVE LeaseMatchesPhase'
      BY <2>2, LeaseMoves, <1>s DEF ConnectTimesOut, Matches
    <2>3. ASSUME ConnectTimesOut(r), pc[r] = "connect", UNCHANGED vars
          PROVE  LeaseMatchesPhase'
      BY <2>0, <2>3, <1>u DEF ConnectTimesOut, vars, Matches
    <2> QED
      BY <1>3, <2>1, <2>2, <2>3 DEF Deadline, ConnectTimesOut
  <1>4. ASSUME (\E c \in Conns : UploadCompletes(c)) \/ EnvStep \/ UNCHANGED tvars
        PROVE  LeaseMatchesPhase'
    <2>1. UNCHANGED <<pc, lease>>
      BY <1>4 DEF UploadCompletes, EnvStep, Clear, ConnStep, PeerCloses, DriverEnds,
                  tvars, vars, taskVars
    <2> QED
      BY <2>1 DEF LeaseMatchesPhase
  <1> QED
    BY <1>1, <1>2, <1>3, <1>4 DEF TNext
-----------------------------------------------------------------------------
(* Clean leases and idle slots name connections without unread bytes.        *)
Drained == CleanIsDrained /\ SlotsDrained

\* The steps of the pool other than CompleteReusable add no clean lease, and an
\* idle slot only for a clean lease.
LEMMA DrainedByLease ==
  ASSUME TypeOK, Drained, responding' = responding, NEW r \in Requests,
         \/ \E k \in Keys : Acquire(r, k)
         \/ \E k \in Keys, c \in Conns : BeginConnect(r, k, c)
         \/ Dialed(r) \/ Established(r) \/ DropLease(r) \/ PollDriver(r)
         \/ \E cause \in Causes : CompleteDirty(r, cause)
         \/ Park(r) \/ Reject(r)
  PROVE  Drained'
  <1> USE DEF Drained
  <1>1. ASSUME NEW k \in Keys, Acquire(r, k) PROVE Drained'
    <2>1. CleanIsDrained'
      BY <1>1, LeaseMoves DEF CleanIsDrained, Others
    <2>2. \A l \in Keys : idle'[l] = IF l = k THEN SubSeq(idle[k], 1, Len(idle[k]) - 1) ELSE idle[l]
      BY <1>1 DEF Acquire, TypeOK
    <2>3. \A i \in 1..Len(idle'[k]) : i \in 1..Len(idle[k]) /\ idle'[k][i] = idle[k][i]
      BY <1>1, <2>2 DEF Acquire, TypeOK
    <2> QED
      BY <2>1, <2>2, <2>3 DEF SlotsDrained
  <1>2. ASSUME \/ \E k \in Keys, c \in Conns : BeginConnect(r, k, c)
               \/ Established(r) \/ DropLease(r)
               \/ \E cause \in Causes : CompleteDirty(r, cause)
               \/ Reject(r)
        PROVE  Drained'
    <2>1. idle' = idle
      BY <1>2 DEF BeginConnect, Established, DropLease, CompleteDirty, Reject, poolVars
    <2>2. CleanIsDrained'
      BY <1>2, LeaseMoves DEF CleanIsDrained, Others
    <2> QED
      BY <2>1, <2>2 DEF SlotsDrained
  <1>3. ASSUME Dialed(r) \/ PollDriver(r) PROVE Drained'
    BY <1>3 DEF Dialed, PollDriver, poolVars, CleanIsDrained, SlotsDrained
  <1>4. ASSUME Park(r) PROVE Drained'
    <2>1. CleanIsDrained'
      BY <1>4, LeaseMoves DEF CleanIsDrained, Others
    <2>2. PICK k \in Keys : k = lease[r].key
      BY <1>4 DEF Park, TypeOK
    <2>3. PICK c \in Conns : c = lease[r].conn
      BY <1>4 DEF Park, TypeOK
    <2>4. ~responding[c]
      BY <1>4, <2>3 DEF Park, Reusable, CleanIsDrained
    <2>5. \A l \in Keys : idle'[l] = IF l = k THEN Append(idle[k], c) ELSE idle[l]
      BY <1>4, <2>2, <2>3 DEF Park, TypeOK
    <2>6. \A i \in 1..Len(idle'[k]) :
              \/ i \in 1..Len(idle[k]) /\ idle'[k][i] = idle[k][i]
              \/ idle'[k][i] = c
      <3>1. idle'[k] = Append(idle[k], c) /\ idle[k] \in Seq(Conns)
        BY <2>5 DEF TypeOK
      <3> QED
        BY <3>1
    <2> QED
      BY <2>1, <2>4, <2>5, <2>6 DEF SlotsDrained
  <1> QED
    BY <1>1, <1>2, <1>3, <1>4

\* The peer, hyper's driver and clear_pool write no response.
LEMMA DrainedByEnvironment ==
  ASSUME TypeOK, Drained, responding' = responding, Clear \/ \E c \in Conns : ConnStep(c)
  PROVE  Drained'
  BY DEF Drained, Clear, ConnStep, PeerCloses, DriverEnds, poolVars, CleanIsDrained,
         SlotsDrained

\* Only a response that was read to its end is followed by a reusable lease.
LEMMA DrainedStep ==
  IInv /\ TaskTypeOK /\ TargetSet /\ LeaseMatchesPhase /\ Drained /\ [TNext]_tvars => Drained'
  <1> SUFFICES ASSUME IInv, TaskTypeOK, TargetSet, LeaseMatchesPhase, Drained, [TNext]_tvars
               PROVE  Drained'
    OBVIOUS
  <1>t. TypeOK /\ LeasesDistinct /\ LeasedNotInSlot
    BY DEF IInv
  <1>u. ASSUME UNCHANGED vars, responding' = responding PROVE Drained'
    BY <1>u DEF vars, Drained, CleanIsDrained, SlotsDrained
  <1>1. ASSUME NEW r \in Requests, OwnStep(r) PROVE Drained'
    <2>1. ASSUME PopIdle(r) PROVE Drained'
      <3>1. target[r] \in Keys
        BY <2>1 DEF PopIdle, TargetSet
      <3> QED
        BY <1>t, <2>1, <3>1, DrainedByLease DEF PopIdle, wireVars
    <2>2. ASSUME StartConnect(r) PROVE Drained'
      <3>1. target[r] \in Keys
        BY <2>2 DEF StartConnect, TargetSet
      <3> QED
        BY <1>t, <2>2, <3>1, DrainedByLease DEF StartConnect, wireVars
    <2>3. ASSUME ProbeFails(r) \/ ReadyFails(r) PROVE Drained'
      BY <1>t, <2>3, DrainedByLease DEF ProbeFails, ReadyFails, Causes, wireVars
    <2>4. ASSUME Discarded(r) \/ SendFails(r) \/ Released(r) PROVE Drained'
      BY <1>t, <2>4, DrainedByLease DEF Discarded, SendFails, Released, wireVars
    <2>5. ASSUME NoIdle(r) \/ ProbePasses(r) PROVE Drained'
      BY <1>u, <2>5 DEF NoIdle, ProbePasses, wireVars
    <2>6. ASSUME NEW body \in BOOLEAN, StartExchange(r, body) PROVE Drained'
      <3>1. lease[r].at # "none" /\ lease[r].at # "completed"
        BY <2>6 DEF StartExchange, LeaseMatchesPhase
      <3>2. \A d \in Conns : d # lease[r].conn => responding'[d] = responding[d]
        BY <2>6 DEF StartExchange, Conn, TaskTypeOK
      <3>3. lease' = lease /\ idle' = idle
        BY <2>6 DEF StartExchange, vars
      <3>4. CleanIsDrained'
        BY <1>t, <3>1, <3>2, <3>3 DEF Drained, CleanIsDrained, LeasesDistinct, TypeOK
      <3>5. SlotsDrained'
        <4>1. ASSUME NEW k \in Keys, NEW i \in 1..Len(idle[k])
              PROVE  ~responding'[idle[k][i]]
          <5>1. idle[k][i] \in Conns
            BY <1>t DEF TypeOK
          <5>2. idle[k][i] # lease[r].conn
            BY <1>t, <3>1 DEF LeasedNotInSlot
          <5> QED
            BY <3>2, <5>1, <5>2 DEF Drained, SlotsDrained
        <4> QED
          BY <3>3, <4>1 DEF SlotsDrained
      <3> QED
        BY <3>4, <3>5 DEF Drained
    <2> QED
      BY <1>1, <2>1, <2>2, <2>3, <2>4, <2>5, <2>6 DEF OwnStep
  <1>2. ASSUME NEW r \in Requests, AwaitedStep(r) PROVE Drained'
    <2>1. ASSUME ConnectFails(r) \/ BuildFails(r) \/ CancelSend(r) PROVE Drained'
      BY <1>t, <2>1, DrainedByLease DEF ConnectFails, BuildFails, CancelSend, wireVars
    <2>2. ASSUME ExchangeFails(r) \/ BodyAbandoned(r) PROVE Drained'
      BY <1>t, <2>2, DrainedByLease DEF ExchangeFails, Abort, BodyAbandoned, Causes, wireVars
    <2>3. ASSUME StreamReady(r) \/ ConnectionReady(r) \/ DriverFinishes(r) PROVE Drained'
      BY <1>t, <2>3, DrainedByLease DEF StreamReady, ConnectionReady, DriverFinishes, wireVars
    <2>4. ASSUME \/ \E k \in Keys, T \in TimeoutChoices : Send(r, k, T)
                 \/ ReadyPasses(r) \/ ResponseHead(r)
          PROVE  Drained'
      BY <1>u, <2>4 DEF Send, ReadyPasses, ResponseHead, wireVars
    <2>5. ASSUME BodyEnds(r) PROVE Drained'
      <3>1. /\ lease[r].at = "held" /\ lease'[r].conn = lease[r].conn /\ Others(r)
            /\ idle' = idle
        BY <1>t, <2>5, LeaseMoves DEF BodyEnds, CompleteReusable, poolVars
      <3>2. \A d \in Conns : responding'[d] => responding[d] /\ d # lease[r].conn
        BY <2>5, <1>t, <3>1 DEF BodyEnds, Conn, TaskTypeOK, TypeOK
      <3>3. CleanIsDrained'
        BY <1>t, <3>1, <3>2 DEF Drained, CleanIsDrained, Others, TypeOK
      <3>4. SlotsDrained'
        BY <1>t, <3>1, <3>2 DEF Drained, SlotsDrained, TypeOK
      <3> QED
        BY <3>3, <3>4 DEF Drained
    <2> QED
      BY <1>2, <2>1, <2>2, <2>3, <2>4, <2>5 DEF AwaitedStep
  <1>3. ASSUME NEW r \in Requests, Deadline(r) PROVE Drained'
    <2>1. ASSUME ReadyTimesOut(r) \/ HeadTimesOut(r) PROVE Drained'
      BY <1>t, <2>1, DrainedByLease DEF ReadyTimesOut, HeadTimesOut, Abort, Causes, wireVars
    <2>2. ASSUME ConnectTimesOut(r) PROVE Drained'
      BY <1>t, <1>u, <2>2, DrainedByLease DEF ConnectTimesOut, wireVars
    <2> QED
      BY <1>3, <2>1, <2>2 DEF Deadline
  <1>4. ASSUME (\E c \in Conns : UploadCompletes(c)) \/ UNCHANGED tvars PROVE Drained'
    BY <1>u, <1>4 DEF UploadCompletes, tvars
  <1>5. ASSUME EnvStep PROVE Drained'
    BY <1>t, <1>5, DrainedByEnvironment DEF EnvStep, wireVars
  <1> QED
    BY <1>1, <1>2, <1>3, <1>4, <1>5 DEF TNext

-----------------------------------------------------------------------------
\* No request was sent yet.
LEMMA TInvInit == TInit => TIInv
  <1> SUFFICES ASSUME TInit PROVE TIInv
    OBVIOUS
  <1>1. IInv
    BY InvInit DEF TInit
  <1>2. TaskTypeOK /\ TargetSet
    BY DEF TInit, TaskTypeOK, TargetSet, Phases
  <1>3. LeaseMatchesPhase /\ CleanIsDrained /\ SlotsDrained
    BY DEF TInit, Init, NoLease, LeaseMatchesPhase, CleanIsDrained, SlotsDrained
  <1> QED
    BY <1>1, <1>2, <1>3 DEF TIInv

\* Every step of the transport keeps the invariant.
LEMMA TInvStep == TIInv /\ [TNext]_tvars => TIInv'
  <1> SUFFICES ASSUME TIInv, [TNext]_tvars PROVE TIInv'
    OBVIOUS
  <1>1. IInv /\ TaskTypeOK /\ TargetSet /\ LeaseMatchesPhase /\ Drained /\ TypeOK
    BY DEF TIInv, IInv, Drained
  <1>2. IInv'
    BY <1>1, PoolStep, InvStep
  <1>3. TaskTypeOK' /\ TargetSet'
    BY <1>1, TaskTypeStep, TargetStep
  <1>4. LeaseMatchesPhase' /\ Drained'
    BY <1>1, PhaseStep, DrainedStep
  <1> QED
    BY <1>2, <1>3, <1>4 DEF TIInv, Drained

\* The inductive invariant of the concurrent sends, for any number of them.
THEOREM TransportInvariant == TSpec => []TIInv
  BY TInvInit, TInvStep, PTL DEF TSpec

\* Transport::send and the response bodies only ever touch the pool through its
\* own operations, so every theorem about the pool holds of the transport.
THEOREM TransportImplementsPool == TSpec => ImplementsPool
  <1>1. TInit => Init
    BY DEF TInit
  <1>2. TIInv /\ [TNext]_tvars => [Next]_vars
    BY PoolStep DEF TIInv
  <1> QED
    BY <1>1, <1>2, TransportInvariant, PTL DEF TSpec, ImplementsPool, Spec

\* The task of a request holds a lease in exactly the phases that use one, for
\* every early return, deadline and cancellation of Transport::send.
THEOREM TransportLeaseMatchesPhase == TSpec => []LeaseMatchesPhase
  BY TransportInvariant, PTL DEF TIInv

\* No connection waits in the pool with bytes of a response that nobody read.
THEOREM TransportParkedIsDrained == TSpec => []ParkedIsDrained
  <1>1. TIInv => ParkedIsDrained
    BY DEF TIInv, SlotsDrained, ParkedIsDrained, IdleConns
  <1> QED
    BY <1>1, TransportInvariant, PTL

\* The state of the tasks, of the pool and of the wire stays well formed.
THEOREM TransportTypeCorrect == TSpec => []TTypeOK
  <1>1. TIInv => TTypeOK
    BY DEF TIInv, IInv, TaskTypeOK, TTypeOK
  <1> QED
    BY <1>1, TransportInvariant, PTL

\* What the pool promises of idle connections and of their life is kept by every
\* request of the transport: send, timeout, cancellation or body.
THEOREM TransportKeepsPoolPromises == TSpec => []PoolPromises /\ LifecycleKept
  BY TransportImplementsPool, PoolKeepsPromises, PoolLifecycleKept DEF ImplementsPool

\* Every way out of Transport::send and of a response body puts its lease where
\* it belongs, and only drained connections into the pool.
THEOREM TransportLeasesAreSettled == TSpec => []LeasesAreSettled
  BY TransportLeaseMatchesPhase, TransportParkedIsDrained, PTL DEF LeasesAreSettled
-----------------------------------------------------------------------------
(* Exchanges on one connection do not overlap.                               *)

\* The requests whose next exchange is the first thing on the wire again.
AtStart(r) == lease[r].at = "connecting" \/ pc[r] = "exchange"

\* The wire is quiet where an exchange may start: on a connection that was never
\* opened, that is being established, or that ready() has passed.
StartsQuiet ==
    /\ \A c \in Conns : socket[c] = "unused" => ~uploading[c]
    /\ \A r \in Requests : AtStart(r) => ~uploading[lease[r].conn]

\* A connection that was opened once is never unopened again.
LEMMA StaysOpened ==
  ASSUME TypeOK, [Next]_vars, NEW c \in Conns, socket'[c] = "unused"
  PROVE  socket[c] = "unused"
  <1>1. ASSUME NEW r \in Requests, RequestStep(r) PROVE socket[c] = "unused"
    BY <1>1 DEF RequestStep, TypeOK, Acquire, BeginConnect, Dialed, Established, DropLease,
       PollDriver, CompleteReusable, CompleteDirty, Park, Reject, Shut, connVars
  <1>2. ASSUME Clear \/ (\E d \in Conns : ConnStep(d)) \/ UNCHANGED vars
        PROVE  socket[c] = "unused"
    BY <1>2 DEF Clear, Shut, ConnStep, PeerCloses, DriverEnds, vars
  <1> QED
    BY <1>1, <1>2 DEF Next

\* Only StartExchange puts a body on the wire, on the connection of its request.
LEMMA OnlyExchangeUploads ==
  ASSUME TaskTypeOK, [TNext]_tvars, NEW c \in Conns, uploading'[c], ~uploading[c]
  PROVE  \E r \in Requests, body \in BOOLEAN : StartExchange(r, body) /\ c = lease[r].conn
  <1>1. ASSUME NEW r \in Requests, OwnStep(r)
        PROVE  \E body \in BOOLEAN : StartExchange(r, body) /\ c = lease[r].conn
    <2>1. ASSUME NEW body \in BOOLEAN, StartExchange(r, body) PROVE c = lease[r].conn
      BY <2>1 DEF StartExchange, Conn, TaskTypeOK
    <2>2. ASSUME \/ PopIdle(r) \/ NoIdle(r) \/ ProbePasses(r) \/ ProbeFails(r) \/ Discarded(r)
                 \/ ReadyFails(r) \/ StartConnect(r) \/ SendFails(r) \/ Released(r)
          PROVE  FALSE
      BY <2>2 DEF PopIdle, NoIdle, ProbePasses, ProbeFails, Discarded, ReadyFails,
         StartConnect, SendFails, Released, wireVars
    <2> QED
      BY <1>1, <2>1, <2>2 DEF OwnStep
  <1>2. ASSUME NEW r \in Requests, AwaitedStep(r) PROVE FALSE
    BY <1>2 DEF AwaitedStep, Send, ReadyPasses, StreamReady, ConnectionReady, ConnectFails,
       BuildFails, ResponseHead, DriverFinishes, ExchangeFails, Abort, CancelSend,
       BodyEnds, BodyAbandoned, wireVars
  <1>3. ASSUME NEW r \in Requests, Deadline(r) PROVE FALSE
    BY <1>3 DEF Deadline, ReadyTimesOut, ConnectTimesOut, HeadTimesOut, Abort, wireVars
  <1>4. ASSUME NEW d \in Conns, UploadCompletes(d) PROVE FALSE
    BY <1>4 DEF UploadCompletes, TaskTypeOK
  <1>5. ASSUME EnvStep \/ UNCHANGED tvars PROVE FALSE
    BY <1>5 DEF EnvStep, tvars, wireVars
  <1> QED
    BY <1>1, <1>2, <1>3, <1>4, <1>5 DEF TNext

\* A request reaches the start of an exchange with a fresh connection, past
\* ready(), or was there before with the same connection.
ReachesStart(r) ==
    \/ AtStart(r) /\ lease'[r].conn = lease[r].conn
    \/ socket[lease'[r].conn] = "unused"
    \/ ~uploading[lease'[r].conn]

\* The ways to the start of an exchange, one step per action of a request.
LEMMA WaysToStart ==
  ASSUME TypeOK, TaskTypeOK, TargetSet, LeaseMatchesPhase, [TNext]_tvars,
         NEW q \in Requests, AtStart(q)'
  PROVE  ReachesStart(q)
  <1>k. ASSUME lease'[q] = lease[q], pc'[q] = pc[q] PROVE ReachesStart(q)
    BY <1>k DEF ReachesStart, AtStart
  <1>g. ASSUME NEW r \in Requests, NEW phase, Goto(r, phase), Others(r),
               phase # "exchange", lease'[r].at # "connecting"
        PROVE  ReachesStart(q)
    <2>1. q # r
      BY <1>g DEF Goto, TaskTypeOK, AtStart
    <2> QED
      BY <1>g, <1>k, <2>1 DEF Goto, Others, TaskTypeOK
  <1>u. ASSUME NEW r \in Requests, NEW phase, Goto(r, phase), lease' = lease,
               phase # "exchange", lease[r].at # "connecting"
        PROVE  ReachesStart(q)
    BY <1>u, <1>g DEF Others
  <1>1. ASSUME NEW r \in Requests, OwnStep(r) PROVE ReachesStart(q)
    <2>1. ASSUME PopIdle(r) PROVE ReachesStart(q)
      <3>1. target[r] \in Keys
        BY <2>1 DEF PopIdle, TargetSet
      <3> QED
        BY <2>1, <3>1, <1>g, LeaseMoves DEF PopIdle
    <2>2. ASSUME StartConnect(r) PROVE ReachesStart(q)
      <3>1. target[r] \in Keys
        BY <2>2 DEF StartConnect, TargetSet
      <3>2. PICK c \in Conns : BeginConnect(r, target[r], c)
        BY <2>2 DEF StartConnect
      <3>3. CASE q = r
        <4>1. lease'[r].conn = c /\ socket[c] = "unused"
          BY <3>1, <3>2, LeaseMoves DEF BeginConnect
        <4> QED
          BY <3>3, <4>1 DEF ReachesStart
      <3>4. CASE q # r
        BY <2>2, <3>1, <3>2, <3>4, <1>k, LeaseMoves DEF StartConnect, Goto, Others, TaskTypeOK
      <3> QED
        BY <3>3, <3>4
    <2>3. ASSUME ProbeFails(r) \/ ReadyFails(r) \/ Discarded(r) \/ SendFails(r) \/ Released(r)
          PROVE  ReachesStart(q)
      BY <2>3, <1>g, LeaseMoves DEF ProbeFails, ReadyFails, Discarded, SendFails, Released,
         Causes
    <2>4. ASSUME NoIdle(r) \/ ProbePasses(r) PROVE ReachesStart(q)
      BY <2>4, <1>u DEF NoIdle, ProbePasses, vars, LeaseMatchesPhase
    <2>5. ASSUME NEW body \in BOOLEAN, StartExchange(r, body) PROVE ReachesStart(q)
      BY <2>5, <1>u DEF StartExchange, vars, LeaseMatchesPhase
    <2> QED
      BY <1>1, <2>1, <2>2, <2>3, <2>4, <2>5 DEF OwnStep
  <1>2. ASSUME NEW r \in Requests, AwaitedStep(r) PROVE ReachesStart(q)
    <2>1. ASSUME ConnectFails(r) \/ BuildFails(r) \/ CancelSend(r) PROVE ReachesStart(q)
      BY <2>1, <1>g, LeaseMoves DEF ConnectFails, BuildFails, CancelSend
    <2>2. ASSUME ExchangeFails(r) \/ BodyAbandoned(r) \/ BodyEnds(r) PROVE ReachesStart(q)
      BY <2>2, <1>g, LeaseMoves DEF ExchangeFails, Abort, BodyAbandoned, BodyEnds, Causes
    <2>3. ASSUME ConnectionReady(r) PROVE ReachesStart(q)
      <3>1. lease[r].at = "connecting" /\ lease'[r].conn = lease[r].conn /\ Others(r)
        BY <2>3, LeaseMoves DEF ConnectionReady
      <3> QED
        BY <2>3, <3>1, <1>k DEF ConnectionReady, Goto, Others, TaskTypeOK, ReachesStart, AtStart
    <2>4. ASSUME StreamReady(r) \/ DriverFinishes(r) PROVE ReachesStart(q)
      BY <2>4, <1>k DEF StreamReady, DriverFinishes, Dialed, PollDriver, taskVars
    <2>5. ASSUME ReadyPasses(r) PROVE ReachesStart(q)
      BY <2>5, <1>k DEF ReadyPasses, Goto, vars, Conn, TaskTypeOK, ReachesStart
    <2>6. ASSUME ResponseHead(r) \/ \E k \in Keys, T \in TimeoutChoices : Send(r, k, T)
          PROVE  ReachesStart(q)
      BY <2>6, <1>u DEF ResponseHead, Send, vars, LeaseMatchesPhase
    <2> QED
      BY <1>2, <2>1, <2>2, <2>3, <2>4, <2>5, <2>6 DEF AwaitedStep
  <1>3. ASSUME NEW r \in Requests, Deadline(r) PROVE ReachesStart(q)
    <2>1. ASSUME ReadyTimesOut(r) \/ HeadTimesOut(r) PROVE ReachesStart(q)
      BY <2>1, <1>g, LeaseMoves DEF ReadyTimesOut, HeadTimesOut, Abort, Causes
    <2>2. ASSUME ConnectTimesOut(r) PROVE ReachesStart(q)
      BY <2>2, <1>g, <1>u, LeaseMoves DEF ConnectTimesOut, vars, LeaseMatchesPhase
    <2> QED
      BY <1>3, <2>1, <2>2 DEF Deadline
  <1>4. ASSUME (\E c \in Conns : UploadCompletes(c)) \/ EnvStep \/ UNCHANGED tvars
        PROVE  ReachesStart(q)
    <2>1. UNCHANGED <<pc, lease>>
      BY <1>4 DEF UploadCompletes, EnvStep, Clear, ConnStep, PeerCloses, DriverEnds,
                  tvars, vars, taskVars
    <2> QED
      BY <2>1, <1>k
  <1> QED
    BY <1>1, <1>2, <1>3, <1>4 DEF TNext

\* Every step keeps the wire quiet where an exchange may start.
LEMMA QuietStep == TIInv /\ StartsQuiet /\ [TNext]_tvars => StartsQuiet'
  <1> SUFFICES ASSUME TIInv, StartsQuiet, [TNext]_tvars PROVE StartsQuiet'
    OBVIOUS
  <1>t. /\ TypeOK /\ TaskTypeOK /\ TargetSet /\ LeaseMatchesPhase /\ LeasesDistinct
        /\ LeaseFaithful
    BY DEF TIInv, IInv
  <1>p. TypeOK' /\ [Next]_vars
    BY TInvStep, PoolStep DEF TIInv, IInv
  \* Who starts an exchange holds a connection that nobody else has.
  <1>x. ASSUME NEW c \in Conns, uploading'[c], ~uploading[c]
        PROVE  /\ socket'[c] # "unused"
               /\ \A q \in Requests : AtStart(q)' => lease'[q].conn # c
    <2>1. PICK r \in Requests, body \in BOOLEAN :
              StartExchange(r, body) /\ c = lease[r].conn
      BY <1>t, <1>x, OnlyExchangeUploads
    <2>2. lease[r].at # "none" /\ UNCHANGED <<lease, socket>> /\ pc' = [pc EXCEPT ![r] = "head"]
      BY <2>1, <1>t DEF StartExchange, vars, Goto, LeaseMatchesPhase
    <2>3. lease[r].at # "connecting"
      BY <2>1, <1>t DEF StartExchange, LeaseMatchesPhase
    <2>4. ASSUME NEW q \in Requests, AtStart(q)' PROVE lease'[q].conn # c
      <3>1. q # r
        BY <2>2, <2>3, <2>4, <1>t DEF AtStart, TaskTypeOK
      <3>2. lease[q].at # "none"
        BY <2>2, <2>4, <3>1, <1>t DEF AtStart, TaskTypeOK, LeaseMatchesPhase
      <3> QED
        BY <2>1, <2>2, <3>1, <3>2, <1>t DEF LeasesDistinct
    <2> QED
      BY <2>1, <2>2, <2>4, <1>t DEF LeaseFaithful
  <1>1. ASSUME NEW c \in Conns, socket'[c] = "unused" PROVE ~uploading'[c]
    BY <1>1, <1>t, <1>p, <1>x, StaysOpened DEF StartsQuiet
  <1>2. ASSUME NEW q \in Requests, AtStart(q)' PROVE ~uploading'[lease'[q].conn]
    <2>1. ReachesStart(q)
      BY <1>2, <1>t, WaysToStart
    <2>2. lease'[q].conn \in Conns
      <3>1. LeaseMatchesPhase'
        BY TInvStep DEF TIInv
      <3> QED
        BY <1>2, <1>p, <3>1 DEF AtStart, LeaseMatchesPhase, TypeOK
    <2>3. ~uploading[lease'[q].conn]
      BY <2>1, <2>2 DEF ReachesStart, StartsQuiet
    <2> QED
      BY <1>2, <1>x, <2>2, <2>3
  <1> QED
    BY <1>1, <1>2 DEF StartsQuiet

\* A request is written only after the previous body was sent: HTTP/1.1
\* exchanges on one connection never overlap, whoever used it before.
THEOREM TransportNoOverlap == TSpec => NoOverlap
  <1>1. TInit => StartsQuiet
    BY DEF TInit, Init, NoLease, StartsQuiet, AtStart
  <1>2. TIInv /\ StartsQuiet /\ [TNext]_tvars => StartsQuiet'
    BY QuietStep
  <1>3. ASSUME TIInv, StartsQuiet, [TNext]_tvars
        PROVE  [\A c \in Conns : responding'[c] /\ ~responding[c] => ~uploading[c]]_tvars
    <2> SUFFICES ASSUME NEW c \in Conns, responding'[c], ~responding[c]
                 PROVE  ~uploading[c]
      OBVIOUS
    <2>t. TaskTypeOK
      BY <1>3 DEF TIInv
    <2>1. ASSUME NEW r \in Requests, OwnStep(r) PROVE ~uploading[c]
      <3>1. ASSUME NEW body \in BOOLEAN, StartExchange(r, body) PROVE ~uploading[c]
        <4>1. c = lease[r].conn /\ AtStart(r)
          BY <3>1, <2>t DEF StartExchange, Conn, TaskTypeOK, AtStart
        <4> QED
          BY <1>3, <4>1 DEF StartsQuiet
      <3>2. ASSUME \/ PopIdle(r) \/ NoIdle(r) \/ ProbePasses(r) \/ ProbeFails(r)
                   \/ Discarded(r) \/ ReadyFails(r) \/ StartConnect(r) \/ SendFails(r)
                   \/ Released(r)
            PROVE  FALSE
        BY <3>2 DEF PopIdle, NoIdle, ProbePasses, ProbeFails, Discarded, ReadyFails,
           StartConnect, SendFails, Released, wireVars
      <3> QED
        BY <2>1, <3>1, <3>2 DEF OwnStep
    <2>2. ASSUME NEW r \in Requests, AwaitedStep(r) PROVE FALSE
      <3>1. ASSUME BodyEnds(r) PROVE FALSE
        BY <3>1, <2>t DEF BodyEnds, TaskTypeOK
      <3> QED
        BY <2>2, <3>1 DEF AwaitedStep, Send, ReadyPasses, StreamReady, ConnectionReady,
           ConnectFails, BuildFails, ResponseHead, DriverFinishes, ExchangeFails, Abort,
           CancelSend, BodyAbandoned, wireVars
    <2>3. ASSUME NEW r \in Requests, Deadline(r) PROVE FALSE
      BY <2>3 DEF Deadline, ReadyTimesOut, ConnectTimesOut, HeadTimesOut, Abort, wireVars
    <2>4. ASSUME (\E d \in Conns : UploadCompletes(d)) \/ EnvStep \/ UNCHANGED tvars PROVE FALSE
      BY <2>4 DEF UploadCompletes, EnvStep, tvars, wireVars
    <2> QED
      BY <1>3, <2>1, <2>2, <2>3, <2>4 DEF TNext
  <1> QED
    BY <1>1, <1>2, <1>3, TransportInvariant, PTL DEF TSpec, NoOverlap

----------------------------------------------------------------------------
(* A connection that went stale while it waited.                             *)

\* The phases in which a send uses its connection, from its establishment on.
InUse == {"dial", "exchange", "head", "body"}
UsedBy(q) == pc[q] \in InUse

\* A popped connection has no response on it, because it was drained when it was
\* parked, and is past its establishment.
PoppedIsQuiet ==
    \A r \in Requests : pc[r] \in {"probe", "ready"} =>
        ~responding[lease[r].conn] /\ socket[lease[r].conn] \in {"open", "shut"}

\* Stale, quiet, and with nobody who is past the probes.  This is what stays.
Retired(c) ==
    /\ ~responding[c]
    /\ Stale(c)
    /\ socket[c] \in {"open", "shut"}
    /\ \A r \in Requests : lease[r].at # "none" /\ lease[r].conn = c => ~UsedBy(r)

\* A connection comes into use past the probes, or is a fresh one.
ComesIntoUse(q) ==
    \/ UsedBy(q) /\ lease'[q].conn = lease[q].conn
    \/ socket[lease'[q].conn] = "unused"
    \/ ~Stale(lease'[q].conn)

\* The ways to use a connection, one step per action of a request.
LEMMA WaysIntoUse ==
  ASSUME TypeOK, TaskTypeOK, TargetSet, LeaseMatchesPhase, [TNext]_tvars,
         NEW q \in Requests, UsedBy(q)'
  PROVE  ComesIntoUse(q)
  <1>k. ASSUME lease'[q] = lease[q], pc'[q] = pc[q] PROVE ComesIntoUse(q)
    BY <1>k DEF ComesIntoUse, UsedBy
  <1>g. ASSUME NEW r \in Requests, NEW phase, Goto(r, phase), Others(r), phase \notin InUse
        PROVE  ComesIntoUse(q)
    <2>1. q # r
      BY <1>g DEF Goto, TaskTypeOK, UsedBy
    <2> QED
      BY <1>g, <1>k, <2>1 DEF Goto, Others, TaskTypeOK
  <1>u. ASSUME NEW r \in Requests, NEW phase, Goto(r, phase), lease' = lease,
               phase \notin InUse \/ UsedBy(r)
        PROVE  ComesIntoUse(q)
    <2>1. CASE q = r /\ UsedBy(r)
      BY <1>u, <2>1 DEF ComesIntoUse
    <2>2. CASE q # r
      BY <1>u, <2>2, <1>k DEF Goto, TaskTypeOK
    <2>3. CASE q = r /\ phase \notin InUse
      BY <1>u, <2>3 DEF Goto, TaskTypeOK, UsedBy
    <2> QED
      BY <1>u, <2>1, <2>2, <2>3
  <1>1. ASSUME NEW r \in Requests, OwnStep(r) PROVE ComesIntoUse(q)
    <2>1. ASSUME PopIdle(r) PROVE ComesIntoUse(q)
      <3>1. target[r] \in Keys
        BY <2>1 DEF PopIdle, TargetSet
      <3> QED
        BY <2>1, <3>1, <1>g, LeaseMoves DEF PopIdle, InUse
    <2>2. ASSUME StartConnect(r) PROVE ComesIntoUse(q)
      <3>1. target[r] \in Keys
        BY <2>2 DEF StartConnect, TargetSet
      <3>2. PICK c \in Conns : BeginConnect(r, target[r], c)
        BY <2>2 DEF StartConnect
      <3>3. CASE q = r
        <4>1. lease'[r].conn = c /\ socket[c] = "unused"
          BY <3>1, <3>2, LeaseMoves DEF BeginConnect
        <4> QED
          BY <3>3, <4>1 DEF ComesIntoUse
      <3>4. CASE q # r
        BY <2>2, <3>1, <3>2, <3>4, <1>k, LeaseMoves DEF StartConnect, Goto, Others, TaskTypeOK
      <3> QED
        BY <3>3, <3>4
    <2>3. ASSUME ProbeFails(r) \/ ReadyFails(r) \/ Discarded(r) \/ SendFails(r) \/ Released(r)
          PROVE  ComesIntoUse(q)
      BY <2>3, <1>g, LeaseMoves DEF ProbeFails, ReadyFails, Discarded, SendFails, Released,
         Causes, InUse
    <2>4. ASSUME NoIdle(r) \/ ProbePasses(r) PROVE ComesIntoUse(q)
      BY <2>4, <1>u DEF NoIdle, ProbePasses, vars, InUse
    <2>5. ASSUME NEW body \in BOOLEAN, StartExchange(r, body) PROVE ComesIntoUse(q)
      BY <2>5, <1>u DEF StartExchange, vars, UsedBy, InUse
    <2> QED
      BY <1>1, <2>1, <2>2, <2>3, <2>4, <2>5 DEF OwnStep
  <1>2. ASSUME NEW r \in Requests, AwaitedStep(r) PROVE ComesIntoUse(q)
    <2>1. ASSUME ConnectFails(r) \/ BuildFails(r) \/ CancelSend(r) PROVE ComesIntoUse(q)
      BY <2>1, <1>g, LeaseMoves DEF ConnectFails, BuildFails, CancelSend, InUse
    <2>2. ASSUME ExchangeFails(r) \/ BodyAbandoned(r) \/ BodyEnds(r) PROVE ComesIntoUse(q)
      BY <2>2, <1>g, LeaseMoves DEF ExchangeFails, Abort, BodyAbandoned, BodyEnds, Causes, InUse
    <2>3. ASSUME ConnectionReady(r) PROVE ComesIntoUse(q)
      <3>1. /\ lease'[r].conn = lease[r].conn /\ Others(r) /\ UsedBy(r)
            /\ pc' = [pc EXCEPT ![r] = "exchange"]
        BY <2>3, LeaseMoves DEF ConnectionReady, UsedBy, InUse, Goto
      <3> QED
        BY <3>1, <1>k DEF Others, TaskTypeOK, ComesIntoUse
    <2>4. ASSUME StreamReady(r) \/ DriverFinishes(r) PROVE ComesIntoUse(q)
      BY <2>4, <1>k DEF StreamReady, DriverFinishes, Dialed, PollDriver, taskVars
    <2>5. ASSUME ReadyPasses(r) PROVE ComesIntoUse(q)
      BY <2>5, <1>k DEF ReadyPasses, Goto, vars, Conn, TaskTypeOK, ComesIntoUse, Stale
    <2>6. ASSUME ResponseHead(r) \/ \E k \in Keys, T \in TimeoutChoices : Send(r, k, T)
          PROVE  ComesIntoUse(q)
      BY <2>6, <1>u DEF ResponseHead, Send, vars, UsedBy, InUse
    <2> QED
      BY <1>2, <2>1, <2>2, <2>3, <2>4, <2>5, <2>6 DEF AwaitedStep
  <1>3. ASSUME NEW r \in Requests, Deadline(r) PROVE ComesIntoUse(q)
    <2>1. ASSUME ReadyTimesOut(r) \/ HeadTimesOut(r) PROVE ComesIntoUse(q)
      BY <2>1, <1>g, LeaseMoves DEF ReadyTimesOut, HeadTimesOut, Abort, Causes, InUse
    <2>2. ASSUME ConnectTimesOut(r) PROVE ComesIntoUse(q)
      BY <2>2, <1>g, <1>u, LeaseMoves DEF ConnectTimesOut, vars, InUse
    <2> QED
      BY <1>3, <2>1, <2>2 DEF Deadline
  <1>4. ASSUME (\E c \in Conns : UploadCompletes(c)) \/ EnvStep \/ UNCHANGED tvars
        PROVE  ComesIntoUse(q)
    <2>1. UNCHANGED <<pc, lease>>
      BY <1>4 DEF UploadCompletes, EnvStep, Clear, ConnStep, PeerCloses, DriverEnds,
                  tvars, vars, taskVars
    <2> QED
      BY <2>1, <1>k
  <1> QED
    BY <1>1, <1>2, <1>3, <1>4 DEF TNext

\* Only StartExchange begins a response, on the connection of its request.
LEMMA OnlyExchangeResponds ==
  ASSUME TaskTypeOK, [TNext]_tvars, NEW c \in Conns, responding'[c], ~responding[c]
  PROVE  \E r \in Requests, body \in BOOLEAN : StartExchange(r, body) /\ c = lease[r].conn
  <1>1. ASSUME NEW r \in Requests, OwnStep(r)
        PROVE  \E body \in BOOLEAN : StartExchange(r, body) /\ c = lease[r].conn
    <2>1. ASSUME NEW body \in BOOLEAN, StartExchange(r, body) PROVE c = lease[r].conn
      BY <2>1 DEF StartExchange, Conn, TaskTypeOK
    <2>2. ASSUME \/ PopIdle(r) \/ NoIdle(r) \/ ProbePasses(r) \/ ProbeFails(r) \/ Discarded(r)
                 \/ ReadyFails(r) \/ StartConnect(r) \/ SendFails(r) \/ Released(r)
          PROVE  FALSE
      BY <2>2 DEF PopIdle, NoIdle, ProbePasses, ProbeFails, Discarded, ReadyFails,
         StartConnect, SendFails, Released, wireVars
    <2> QED
      BY <1>1, <2>1, <2>2 DEF OwnStep
  <1>2. ASSUME NEW r \in Requests, AwaitedStep(r) PROVE FALSE
    <2>1. ASSUME BodyEnds(r) PROVE FALSE
      BY <2>1 DEF BodyEnds, TaskTypeOK
    <2> QED
      BY <1>2, <2>1 DEF AwaitedStep, Send, ReadyPasses, StreamReady, ConnectionReady,
         ConnectFails, BuildFails, ResponseHead, DriverFinishes, ExchangeFails, Abort,
         CancelSend, BodyAbandoned, wireVars
  <1>3. ASSUME NEW r \in Requests, Deadline(r) PROVE FALSE
    BY <1>3 DEF Deadline, ReadyTimesOut, ConnectTimesOut, HeadTimesOut, Abort, wireVars
  <1>4. ASSUME (\E d \in Conns : UploadCompletes(d)) \/ EnvStep \/ UNCHANGED tvars PROVE FALSE
    BY <1>4 DEF UploadCompletes, EnvStep, tvars, wireVars
  <1> QED
    BY <1>1, <1>2, <1>3, <1>4 DEF TNext

\* The pool revives no connection that is established and nobody is establishing.
LEMMA StaysStale ==
  ASSUME TypeOK, [Next]_vars, NEW c \in Conns, Stale(c), socket[c] \in {"open", "shut"},
         \A r \in Requests : lease[r].at = "connecting" => lease[r].conn # c
  PROVE  Stale(c)' /\ socket'[c] \in {"open", "shut"}
  <1> USE DEF Stale, IsLive, PeerIsOpen
  <1>1. ASSUME NEW r \in Requests, RequestStep(r)
        PROVE  Stale(c)' /\ socket'[c] \in {"open", "shut"}
    <2>1. ASSUME \/ \E k \in Keys : Acquire(r, k)
                 \/ CompleteReusable(r) \/ Park(r)
          PROVE  UNCHANGED <<socket, driver, peerOpen>>
      BY <2>1 DEF Acquire, CompleteReusable, Park, connVars
    <2>2. ASSUME NEW k \in Keys, NEW d \in Conns, BeginConnect(r, k, d)
          PROVE  socket'[c] = socket[c] /\ UNCHANGED <<driver, peerOpen>>
      BY <2>2 DEF BeginConnect, TypeOK
    <2>3. ASSUME Dialed(r) \/ Established(r)
          PROVE  socket'[c] = socket[c] /\ driver'[c] = driver[c] /\ peerOpen'[c] = peerOpen[c]
      BY <2>3 DEF Dialed, Established, TypeOK
    <2>4. ASSUME \/ DropLease(r) \/ PollDriver(r) \/ Reject(r)
                 \/ \E cause \in Causes : CompleteDirty(r, cause)
          PROVE  Stale(c)' /\ socket'[c] \in {"open", "shut"}
      BY <2>4 DEF DropLease, PollDriver, Reject, CompleteDirty, Shut, TypeOK
    <2> QED
      BY <1>1, <2>1, <2>2, <2>3, <2>4 DEF RequestStep
  <1>2. ASSUME Clear PROVE Stale(c)' /\ socket'[c] \in {"open", "shut"}
    BY <1>2 DEF Clear, Shut, TypeOK
  <1>3. ASSUME NEW d \in Conns, ConnStep(d) PROVE Stale(c)' /\ socket'[c] \in {"open", "shut"}
    BY <1>3 DEF ConnStep, PeerCloses, DriverEnds, TypeOK
  <1>4. ASSUME UNCHANGED vars PROVE Stale(c)' /\ socket'[c] \in {"open", "shut"}
    BY <1>4 DEF vars
  <1> QED
    BY <1>1, <1>2, <1>3, <1>4 DEF Next

\* A retired connection stays retired, whatever takes it up.
LEMMA StaysRetired ==
  ASSUME TIInv, [TNext]_tvars, NEW c \in Conns, Retired(c)
  PROVE  Retired(c)'
  <1>t. /\ TypeOK /\ TaskTypeOK /\ TargetSet /\ LeaseMatchesPhase
    BY DEF TIInv, IInv
  <1>p. [Next]_vars /\ LeaseMatchesPhase' /\ TypeOK'
    BY <1>t, PoolStep, TInvStep DEF TIInv, IInv
  <1>1. ~responding'[c]
    <2> SUFFICES ASSUME responding'[c] PROVE FALSE
      OBVIOUS
    <2>1. PICK r \in Requests, body \in BOOLEAN : StartExchange(r, body) /\ c = lease[r].conn
      BY <1>t, OnlyExchangeResponds DEF Retired
    <2>2. lease[r].at # "none" /\ UsedBy(r)
      BY <2>1, <1>t DEF StartExchange, LeaseMatchesPhase, UsedBy, InUse
    <2> QED
      BY <2>1, <2>2 DEF Retired
  <1>2. Stale(c)' /\ socket'[c] \in {"open", "shut"}
    <2>1. \A r \in Requests : lease[r].at = "connecting" => lease[r].conn # c
      BY <1>t DEF Retired, LeaseMatchesPhase, UsedBy, InUse
    <2> QED
      BY <1>t, <1>p, <2>1, StaysStale DEF Retired
  <1>3. ASSUME NEW q \in Requests, lease'[q].at # "none", lease'[q].conn = c PROVE ~UsedBy(q)'
    <2> SUFFICES ASSUME UsedBy(q)' PROVE FALSE
      OBVIOUS
    <2>1. ComesIntoUse(q)
      BY <1>t, WaysIntoUse
    <2>2. UsedBy(q) /\ lease[q].conn = c
      BY <1>3, <2>1 DEF ComesIntoUse, Retired
    <2>3. lease[q].at # "none"
      BY <1>t, <2>2 DEF UsedBy, InUse, LeaseMatchesPhase
    <2> QED
      BY <2>2, <2>3 DEF Retired
  <1> QED
    BY <1>1, <1>2, <1>3 DEF Retired

\* The phases between the pool and an exchange.
Popped(q) == pc[q] \in {"probe", "ready"}

\* A request has a popped connection because it has just popped it or had it before.
LEMMA WaysToPop ==
  ASSUME TypeOK, TaskTypeOK, [TNext]_tvars, NEW q \in Requests, Popped(q)'
  PROVE  PopIdle(q) \/ (Popped(q) /\ lease'[q].conn = lease[q].conn)
  <1> DEFINE Stays == PopIdle(q) \/ (Popped(q) /\ lease'[q].conn = lease[q].conn)
  <1>k. ASSUME lease'[q] = lease[q], pc'[q] = pc[q] PROVE Stays
    BY <1>k DEF Popped
  <1>g. ASSUME NEW r \in Requests, NEW phase, Goto(r, phase), Others(r) \/ lease' = lease,
               phase \notin {"probe", "ready"}
        PROVE  Stays
    <2>1. q # r
      BY <1>g DEF Goto, TaskTypeOK, Popped
    <2> QED
      BY <1>g, <1>k, <2>1 DEF Goto, Others, TaskTypeOK
  <1> HIDE DEF Stays
  <1>1. ASSUME NEW r \in Requests, OwnStep(r) PROVE Stays
    <2>1. ASSUME PopIdle(r) PROVE Stays
      <3>1. CASE q = r
        BY <2>1, <3>1 DEF Stays
      <3>2. CASE q # r
        BY <2>1, <3>2, <1>k DEF PopIdle, Acquire, Goto, TaskTypeOK, TypeOK
      <3> QED
        BY <3>1, <3>2
    <2>2. ASSUME StartConnect(r) PROVE Stays
      <3>1. Others(r)
        BY <2>2 DEF StartConnect, BeginConnect, Others, TypeOK
      <3> QED
        BY <2>2, <3>1, <1>g DEF StartConnect
    <2>3. ASSUME ProbeFails(r) \/ ReadyFails(r) \/ Discarded(r) \/ SendFails(r) \/ Released(r)
          PROVE  Stays
      BY <2>3, <1>g, LeaseMoves DEF ProbeFails, ReadyFails, Discarded, SendFails, Released,
         Causes
    <2>4. ASSUME ProbePasses(r) PROVE Stays
      BY <2>4, <1>k DEF ProbePasses, vars, Goto, TaskTypeOK, Popped, Stays
    <2>5. ASSUME NoIdle(r) \/ \E body \in BOOLEAN : StartExchange(r, body) PROVE Stays
      BY <2>5, <1>g DEF NoIdle, StartExchange, vars
    <2> QED
      BY <1>1, <2>1, <2>2, <2>3, <2>4, <2>5 DEF OwnStep
  <1>2. ASSUME NEW r \in Requests, AwaitedStep(r) PROVE Stays
    <2>1. ASSUME ConnectFails(r) \/ BuildFails(r) \/ CancelSend(r) PROVE Stays
      BY <2>1, <1>g, LeaseMoves DEF ConnectFails, BuildFails, CancelSend
    <2>2. ASSUME ExchangeFails(r) \/ BodyAbandoned(r) \/ BodyEnds(r) PROVE Stays
      BY <2>2, <1>g, LeaseMoves DEF ExchangeFails, Abort, BodyAbandoned, BodyEnds, Causes
    <2>3. ASSUME ConnectionReady(r) PROVE Stays
      BY <2>3, <1>g, LeaseMoves DEF ConnectionReady
    <2>4. ASSUME StreamReady(r) \/ DriverFinishes(r) PROVE Stays
      BY <2>4, <1>k DEF StreamReady, DriverFinishes, Dialed, PollDriver, taskVars
    <2>5. ASSUME \/ ReadyPasses(r) \/ ResponseHead(r)
                 \/ \E k \in Keys, T \in TimeoutChoices : Send(r, k, T)
          PROVE  Stays
      BY <2>5, <1>g DEF ReadyPasses, ResponseHead, Send, vars
    <2> QED
      BY <1>2, <2>1, <2>2, <2>3, <2>4, <2>5 DEF AwaitedStep
  <1>3. ASSUME NEW r \in Requests, Deadline(r) PROVE Stays
    <2>1. ASSUME ReadyTimesOut(r) \/ HeadTimesOut(r) PROVE Stays
      BY <2>1, <1>g, LeaseMoves DEF ReadyTimesOut, HeadTimesOut, Abort, Causes
    <2>2. ASSUME ConnectTimesOut(r) PROVE Stays
      BY <2>2, <1>g, LeaseMoves DEF ConnectTimesOut, vars
    <2> QED
      BY <1>3, <2>1, <2>2 DEF Deadline
  <1>4. ASSUME (\E c \in Conns : UploadCompletes(c)) \/ EnvStep \/ UNCHANGED tvars
        PROVE  Stays
    <2>1. UNCHANGED <<pc, lease>>
      BY <1>4 DEF UploadCompletes, EnvStep, Clear, ConnStep, PeerCloses, DriverEnds,
                  tvars, vars, taskVars
    <2> QED
      BY <2>1, <1>k
  <1> QED
    BY <1>1, <1>2, <1>3, <1>4 DEF TNext, Stays

\* An established connection stays open until it is shut, for good.
LEMMA StaysEstablished ==
  ASSUME TypeOK, [Next]_vars, NEW c \in Conns, socket[c] \in {"open", "shut"}
  PROVE  socket'[c] \in {"open", "shut"}
  <1>1. ASSUME NEW r \in Requests, RequestStep(r) PROVE socket'[c] \in {"open", "shut"}
    BY <1>1 DEF RequestStep, TypeOK, Acquire, BeginConnect, Dialed, Established, DropLease,
       PollDriver, CompleteReusable, CompleteDirty, Park, Reject, Shut, connVars
  <1>2. ASSUME Clear \/ (\E d \in Conns : ConnStep(d)) \/ UNCHANGED vars
        PROVE  socket'[c] \in {"open", "shut"}
    BY <1>2 DEF Clear, Shut, ConnStep, PeerCloses, DriverEnds, vars
  <1> QED
    BY <1>1, <1>2 DEF Next

\* A connection is popped drained, and nobody but its holder writes on it.
LEMMA PoppedStep == TIInv /\ PoppedIsQuiet /\ [TNext]_tvars => PoppedIsQuiet'
  <1> SUFFICES ASSUME TIInv, PoppedIsQuiet, [TNext]_tvars, NEW q \in Requests, Popped(q)'
               PROVE  ~responding'[lease'[q].conn] /\ socket'[lease'[q].conn] \in {"open", "shut"}
    BY DEF PoppedIsQuiet, Popped
  <1>t. /\ TypeOK /\ TaskTypeOK /\ TargetSet /\ LeaseMatchesPhase /\ LeasesDistinct
        /\ SlotsDrained /\ SlotFaithful
    BY DEF TIInv, IInv
  <1>1. ASSUME PopIdle(q)
        PROVE  ~responding'[lease'[q].conn] /\ socket'[lease'[q].conn] \in {"open", "shut"}
    <2>1. PICK k \in Keys : k = target[q]
      BY <1>1, <1>t DEF PopIdle, TargetSet
    <2>2. Len(idle[k]) \in 1..Len(idle[k]) /\ lease'[q].conn = idle[k][Len(idle[k])]
      BY <1>1, <1>t, <2>1 DEF PopIdle, Acquire, NewLease, TypeOK
    <2>3. responding' = responding /\ socket' = socket
      BY <1>1 DEF PopIdle, Acquire, wireVars, connVars
    <2> QED
      BY <1>t, <2>2, <2>3 DEF SlotsDrained, SlotFaithful
  <1>2. ASSUME Popped(q), lease'[q].conn = lease[q].conn
        PROVE  ~responding'[lease'[q].conn] /\ socket'[lease'[q].conn] \in {"open", "shut"}
    <2> DEFINE c == lease[q].conn
    <2>1. lease[q].at # "none" /\ c \in Conns /\ ~responding[c] /\ socket[c] \in {"open", "shut"}
      BY <1>2, <1>t DEF Popped, LeaseMatchesPhase, TypeOK, PoppedIsQuiet
    <2>s. socket'[c] \in {"open", "shut"}
      BY <1>t, <2>1, PoolStep, StaysEstablished
    <2> SUFFICES ASSUME responding'[c] PROVE FALSE
      BY <1>2, <2>s
    <2>2. PICK r \in Requests, body \in BOOLEAN : StartExchange(r, body) /\ c = lease[r].conn
      BY <1>t, <2>1, OnlyExchangeResponds
    <2>3. pc[r] = "exchange" /\ lease[r].at # "none"
      BY <2>2, <1>t DEF StartExchange, LeaseMatchesPhase
    <2> QED
      BY <1>2, <1>t, <2>1, <2>2, <2>3 DEF LeasesDistinct, Popped
  <1> QED
    BY <1>t, <1>1, <1>2, WaysToPop

\* A connection that goes stale while it waits, in the pool or with a send between
\* its probes, never carries a request again, for any number of sends and clears.
THEOREM TransportStaleNeverCarries == TSpec => StaleNeverCarries
  <1>1. TInit => PoppedIsQuiet
    BY DEF TInit, PoppedIsQuiet
  <1>2. TIInv /\ PoppedIsQuiet /\ [TNext]_tvars => PoppedIsQuiet'
    BY PoppedStep
  <1>3. ASSUME NEW c \in Conns
        PROVE  TSpec => [](Waiting(c) /\ Stale(c) => []~responding[c])
    <2>1. TIInv /\ PoppedIsQuiet /\ Waiting(c) /\ Stale(c) => Retired(c)
      <3> SUFFICES ASSUME TIInv, PoppedIsQuiet, Waiting(c), Stale(c) PROVE Retired(c)
        OBVIOUS
      <3>t. /\ TypeOK /\ TaskTypeOK /\ LeaseMatchesPhase /\ LeasesDistinct /\ LeasedNotInSlot
            /\ SlotsDrained /\ SlotFaithful
        BY DEF TIInv, IInv
      <3>1. ASSUME NEW k \in Keys, c \in IdleConns(k) PROVE Retired(c)
        <4>1. PICK i \in 1..Len(idle[k]) : c = idle[k][i]
          BY <3>1 DEF IdleConns
        <4>2. ~responding[c] /\ socket[c] = "open"
          BY <3>t, <4>1 DEF SlotsDrained, SlotFaithful
        <4>3. \A r \in Requests : lease[r].at # "none" => lease[r].conn # c
          BY <3>t, <4>1 DEF LeasedNotInSlot
        <4> QED
          BY <4>2, <4>3 DEF Retired
      <3>2. ASSUME NEW r \in Requests, lease[r].conn = c, Popped(r) PROVE Retired(c)
        <4>1. /\ lease[r].at # "none" /\ ~UsedBy(r) /\ ~responding[c]
              /\ socket[c] \in {"open", "shut"}
          BY <3>2, <3>t DEF Popped, LeaseMatchesPhase, UsedBy, InUse, PoppedIsQuiet
        <4>2. \A q \in Requests : lease[q].at # "none" /\ lease[q].conn = c => q = r
          BY <3>2, <3>t, <4>1 DEF LeasesDistinct
        <4> QED
          BY <4>1, <4>2 DEF Retired
      <3> QED
        BY <3>1, <3>2 DEF Waiting, Popped
    <2>2. TIInv /\ Retired(c) /\ [TNext]_tvars => Retired(c)'
      BY StaysRetired
    <2>3. Retired(c) => ~responding[c]
      BY DEF Retired
    <2> QED
      BY <1>1, <1>2, <2>1, <2>2, <2>3, TransportInvariant, PTL DEF TSpec
  <1> QED
    BY <1>3 DEF StaleNeverCarries

----------------------------------------------------------------------------
(***************************************************************************)
(* The capacity of an adapter (AdapterPool).  The argument is a count: a    *)
(* key's idle connections and the requests that use or establish one of its *)
(* connections are never more than the pool holds, because a request        *)
(* establishes one only when it found none idle, and holds a permit while   *)
(* it does.                                                                 *)
(***************************************************************************)

\* The request has a connection of the key, or is about to establish one.
Uses(q, k) ==
    \/ lease[q].at # "none" /\ lease[q].key = k
    \/ pc[q] = "connect" /\ target[q] = k

Users(k) == {q \in Requests : Uses(q, k)}

PermitsBounded ==
    /\ permitted \subseteq Requests
    /\ IsFiniteSet(permitted) /\ Cardinality(permitted) <= MaxIdle

\* Nobody is inside a send, or has a body, without a permit.
ActiveArePermitted == \A r \in Requests : pc[r] \notin {"new", "done"} => r \in permitted

\* The count.
RoomForUsers == \A k \in Keys : Len(idle[k]) + Cardinality(Users(k)) <= MaxIdle

AInv == TIInv /\ PermitsBounded /\ ActiveArePermitted /\ RoomForUsers

----------------------------------------------------------------------------
\* A step that adds neither a user nor an idle connection to any key.
Calm ==
    \A k \in Keys :
        /\ Len(idle'[k]) <= Len(idle[k])
        /\ \A q \in Requests : Uses(q, k)' => Uses(q, k)

\* Only three steps of the transport add one: a request that finds no idle
\* connection, one that takes an idle connection, and one that returns its own.
LEMMA UseMoves ==
  ASSUME TIInv, TNext
  PROVE  \/ Calm
         \/ \E r \in Requests : PopIdle(r) \/ NoIdle(r) \/ (Released(r) /\ Park(r))
  <1>t. /\ TypeOK /\ TaskTypeOK /\ TargetSet /\ LeaseMatchesPhase
        /\ \A k \in Keys : Len(idle[k]) \in Nat
    BY DEF TIInv, IInv, TypeOK
  <1>s. ASSUME NEW r \in Requests, NEW phase, Goto(r, phase), phase # "connect",
               target' = target, Others(r), idle' = idle,
               lease'[r].at # "none" =>
                  \/ lease[r].at # "none" /\ lease'[r].key = lease[r].key
                  \/ pc[r] = "connect" /\ lease'[r].key = target[r]
        PROVE  Calm
    <2>1. ASSUME NEW k \in Keys, NEW q \in Requests, Uses(q, k)' PROVE Uses(q, k)
      <3>1. CASE q = r
        BY <1>s, <1>t, <2>1, <3>1 DEF Uses, Goto, TaskTypeOK
      <3>2. CASE q # r
        BY <1>s, <1>t, <2>1, <3>2 DEF Uses, Goto, TaskTypeOK, Others
      <3> QED
        BY <3>1, <3>2
    <2> QED
      BY <1>s, <1>t, <2>1 DEF Calm
  <1>n. ASSUME NEW r \in Requests, NEW phase, Goto(r, phase), phase # "connect",
               target' = target, UNCHANGED vars
        PROVE  Calm
    BY <1>s, <1>n DEF vars, Others
  <1>u. ASSUME UNCHANGED taskVars, lease' = lease, \A k \in Keys : Len(idle'[k]) <= Len(idle[k])
        PROVE  Calm
    BY <1>u DEF taskVars, Calm, Uses
  <1>1. ASSUME NEW r \in Requests, OwnStep(r)
        PROVE  Calm \/ PopIdle(r) \/ NoIdle(r) \/ (Released(r) /\ Park(r))
    <2>1. ASSUME StartConnect(r) PROVE Calm
      <3>1. PICK c \in Conns : BeginConnect(r, target[r], c)
        BY <2>1 DEF StartConnect
      <3>2. target[r] \in Keys
        BY <1>t, <2>1 DEF StartConnect, TargetSet
      <3>3. Others(r) /\ lease'[r].key = target[r] /\ idle' = idle
        BY <1>t, <3>1, <3>2, LeaseMoves DEF BeginConnect, poolVars
      <3> QED
        BY <1>s, <2>1, <3>3 DEF StartConnect
    <2>2. ASSUME ProbeFails(r) \/ ReadyFails(r) PROVE Calm
      <3>1. CompleteDirty(r, "Cancellation") /\ Goto(r, "discard") /\ target' = target
        BY <2>2 DEF ProbeFails, ReadyFails
      <3> QED
        BY <1>s, <1>t, <3>1, LeaseMoves DEF CompleteDirty, poolVars, Causes
    <2>3. ASSUME NEW phase \in {"acquire", "done"}, Goto(r, phase), target' = target, Reject(r)
          PROVE  Calm
      BY <1>s, <1>t, <2>3, LeaseMoves DEF Reject
    <2>4. ASSUME ProbePasses(r) \/ \E body \in BOOLEAN : StartExchange(r, body) PROVE Calm
      BY <1>n, <2>4 DEF ProbePasses, StartExchange
    <2> QED
      BY <1>1, <2>1, <2>2, <2>3, <2>4 DEF OwnStep, Discarded, SendFails, Released
  <1>2. ASSUME NEW r \in Requests, AwaitedStep(r) PROVE Calm
    <2>1. ASSUME NEW k \in Keys, NEW T \in TimeoutChoices, Send(r, k, T) PROVE Calm
      <3>1. /\ lease' = lease /\ idle' = idle /\ lease[r].at = "none"
            /\ pc' = [pc EXCEPT ![r] = "acquire"] /\ target' = [target EXCEPT ![r] = k]
        BY <1>t, <2>1 DEF Send, Goto, vars, LeaseMatchesPhase
      <3> QED
        BY <1>t, <3>1 DEF Calm, Uses, TaskTypeOK
    <2>2. ASSUME ConnectFails(r) \/ BuildFails(r) \/ CancelSend(r) PROVE Calm
      <3>1. DropLease(r) /\ Goto(r, "done") /\ target' = target
        BY <2>2 DEF ConnectFails, BuildFails, CancelSend
      <3> QED
        BY <1>s, <1>t, <3>1, LeaseMoves DEF DropLease, poolVars
    <2>3. ASSUME ExchangeFails(r) \/ BodyAbandoned(r) PROVE Calm
      <3>1. PICK cause \in Causes : CompleteDirty(r, cause)
        BY <2>3 DEF ExchangeFails, Abort, BodyAbandoned, Causes
      <3>2. Others(r) /\ lease[r].at # "none" /\ lease'[r].key = lease[r].key /\ idle' = idle
        BY <1>t, <3>1, LeaseMoves DEF CompleteDirty, poolVars
      <3> QED
        BY <1>s, <2>3, <3>2 DEF ExchangeFails, Abort, BodyAbandoned
    <2>4. ASSUME BodyEnds(r) PROVE Calm
      BY <1>s, <1>t, <2>4, LeaseMoves DEF BodyEnds, CompleteReusable, poolVars
    <2>5. ASSUME ConnectionReady(r) PROVE Calm
      BY <1>s, <1>t, <2>5, LeaseMoves DEF ConnectionReady, Established, poolVars
    <2>6. ASSUME StreamReady(r) \/ DriverFinishes(r) PROVE Calm
      BY <1>t, <1>u, <2>6 DEF StreamReady, DriverFinishes, Dialed, PollDriver, poolVars
    <2>7. ASSUME ReadyPasses(r) \/ ResponseHead(r) PROVE Calm
      BY <1>n, <2>7 DEF ReadyPasses, ResponseHead
    <2> QED
      BY <1>2, <2>1, <2>2, <2>3, <2>4, <2>5, <2>6, <2>7 DEF AwaitedStep
  <1>3. ASSUME NEW r \in Requests, Deadline(r) PROVE Calm
    <2>1. ASSUME ReadyTimesOut(r) \/ HeadTimesOut(r) PROVE Calm
      <3>1. PICK cause \in Causes : CompleteDirty(r, cause)
        BY <2>1 DEF ReadyTimesOut, HeadTimesOut, Abort, Causes
      <3>2. Others(r) /\ lease[r].at # "none" /\ lease'[r].key = lease[r].key /\ idle' = idle
        BY <1>t, <3>1, LeaseMoves DEF CompleteDirty, poolVars
      <3> QED
        BY <1>s, <2>1, <3>2 DEF ReadyTimesOut, HeadTimesOut, Abort
    <2>2. ASSUME ConnectTimesOut(r) PROVE Calm
      <3>1. CASE DropLease(r)
        BY <1>s, <1>t, <2>2, <3>1, LeaseMoves DEF ConnectTimesOut, DropLease, poolVars
      <3>2. CASE UNCHANGED vars
        BY <1>n, <2>2, <3>2 DEF ConnectTimesOut
      <3> QED
        BY <2>2, <3>1, <3>2 DEF ConnectTimesOut
    <2> QED
      BY <1>3, <2>1, <2>2 DEF Deadline
  <1>4. ASSUME NEW c \in Conns, UploadCompletes(c) PROVE Calm
    BY <1>t, <1>u, <1>4 DEF UploadCompletes, vars
  <1>5. ASSUME EnvStep PROVE Calm
    <2>1. CASE Clear
      <3>1. \A k \in Keys : Len(idle'[k]) = 0
        BY <2>1 DEF Clear
      <3> QED
        BY <1>t, <1>u, <1>5, <2>1, <3>1 DEF EnvStep, Clear
    <2>2. CASE \E c \in Conns : ConnStep(c)
      BY <1>t, <1>u, <1>5, <2>2 DEF EnvStep, ConnStep, PeerCloses, DriverEnds, poolVars
    <2> QED
      BY <1>5, <2>1, <2>2 DEF EnvStep
  <1> QED
    BY <1>1, <1>2, <1>3, <1>4, <1>5 DEF TNext

----------------------------------------------------------------------------
\* What the library says of counting, in the form the steps below need.
LEMMA CountSubset ==
  ASSUME NEW S, IsFiniteSet(S), NEW T, T \subseteq S
  PROVE  /\ IsFiniteSet(T) /\ Cardinality(T) \in Nat /\ Cardinality(S) \in Nat
         /\ Cardinality(T) <= Cardinality(S)
  <1>1. T \in SUBSET S
    OBVIOUS
  <1>2. IsFiniteSet(T) /\ Cardinality(T) <= Cardinality(S)
    BY <1>1, FS_Subset, Zenon
  <1>3. Cardinality(T) \in Nat /\ Cardinality(S) \in Nat
    BY <1>2, FS_CardinalityType, Zenon
  <1> QED
    BY <1>2, <1>3

\* One more member is at most one more to count.
LEMMA CountAdded ==
  ASSUME NEW S, IsFiniteSet(S), NEW x
  PROVE  /\ IsFiniteSet(S \cup {x}) /\ Cardinality(S \cup {x}) \in Nat
         /\ Cardinality(S \cup {x}) <= Cardinality(S) + 1
  <1>1. /\ IsFiniteSet(S \cup {x})
        /\ Cardinality(S \cup {x}) = IF x \in S THEN Cardinality(S) ELSE Cardinality(S) + 1
    BY FS_AddElement, Zenon
  <1>2. Cardinality(S) \in Nat
    BY FS_CardinalityType, Zenon
  <1> QED
    BY <1>1, <1>2

\* One member less is one less to count.
LEMMA CountRemoved ==
  ASSUME NEW S, IsFiniteSet(S), NEW x \in S
  PROVE  /\ IsFiniteSet(S \ {x}) /\ Cardinality(S) \in Nat
         /\ Cardinality(S \ {x}) = Cardinality(S) - 1
  <1>1. /\ IsFiniteSet(S \ {x})
        /\ Cardinality(S \ {x}) = IF x \in S THEN Cardinality(S) - 1 ELSE Cardinality(S)
    BY FS_RemoveElement, Zenon
  <1>2. Cardinality(S) \in Nat
    BY FS_CardinalityType, Zenon
  <1> QED
    BY <1>1, <1>2

\* The users of a key hold permits, so that they can be counted.
LEMMA UsersCounted ==
  LeaseMatchesPhase /\ PermitsBounded /\ ActiveArePermitted =>
      \A k \in Keys :
         /\ IsFiniteSet(Users(k)) /\ Cardinality(Users(k)) \in Nat
         /\ Cardinality(Users(k)) <= MaxIdle
  <1> SUFFICES ASSUME LeaseMatchesPhase, PermitsBounded, ActiveArePermitted, NEW k \in Keys
               PROVE  /\ IsFiniteSet(Users(k)) /\ Cardinality(Users(k)) \in Nat
                      /\ Cardinality(Users(k)) <= MaxIdle
    OBVIOUS
  <1>1. Users(k) \subseteq permitted
    BY DEF Users, Uses, LeaseMatchesPhase, ActiveArePermitted
  <1>2. IsFiniteSet(permitted) /\ Cardinality(permitted) <= MaxIdle
    BY DEF PermitsBounded
  <1>3. /\ IsFiniteSet(Users(k)) /\ Cardinality(Users(k)) <= Cardinality(permitted)
        /\ Cardinality(permitted) \in Nat /\ Cardinality(Users(k)) \in Nat
    BY <1>1, <1>2, CountSubset, Zenon
  <1> QED
    BY <1>2, <1>3, MaxIdleAssumption

\* The same of the next state.
LEMMA UsersCountedNext ==
  (LeaseMatchesPhase /\ PermitsBounded /\ ActiveArePermitted)' =>
      (\A k \in Keys :
         /\ IsFiniteSet(Users(k)) /\ Cardinality(Users(k)) \in Nat
         /\ Cardinality(Users(k)) <= MaxIdle)'
  BY UsersCounted, PTL

\* A calm step keeps the count.
LEMMA CalmStep ==
  ASSUME TypeOK, TypeOK', LeaseMatchesPhase, PermitsBounded, ActiveArePermitted, RoomForUsers, Calm
  PROVE  RoomForUsers'
  <1> SUFFICES ASSUME NEW k \in Keys
               PROVE  Len(idle'[k]) + Cardinality(Users(k)') <= MaxIdle
    BY DEF RoomForUsers
  <1>1. Users(k)' \subseteq Users(k)
    BY DEF Calm, Users
  <1>2. IsFiniteSet(Users(k)) /\ Cardinality(Users(k)) \in Nat
    BY UsersCounted
  <1>3. Cardinality(Users(k)') \in Nat /\ Cardinality(Users(k)') <= Cardinality(Users(k))
    BY <1>1, <1>2, CountSubset, Zenon
  <1>4. /\ Len(idle[k]) \in Nat /\ Len(idle'[k]) \in Nat /\ Len(idle'[k]) <= Len(idle[k])
        /\ Len(idle[k]) + Cardinality(Users(k)) <= MaxIdle
    BY DEF TypeOK, Calm, RoomForUsers
  <1> QED
    BY <1>2, <1>3, <1>4, MaxIdleAssumption

\* A request that finds no idle connection of its key leaves the others room to
\* return theirs: all of them and itself hold permits.
LEMMA NoIdleStep ==
  ASSUME TIInv, PermitsBounded, ActiveArePermitted, RoomForUsers,
         (LeaseMatchesPhase /\ PermitsBounded /\ ActiveArePermitted)',
         NEW r \in Requests, NoIdle(r)
  PROVE  RoomForUsers'
  <1> SUFFICES ASSUME NEW k \in Keys
               PROVE  Len(idle'[k]) + Cardinality(Users(k)') <= MaxIdle
    BY DEF RoomForUsers
  <1>t. TypeOK /\ TaskTypeOK /\ idle' = idle /\ lease' = lease /\ target' = target
        /\ pc' = [pc EXCEPT ![r] = "connect"] /\ pc[r] = "acquire"
    BY DEF TIInv, IInv, NoIdle, Goto, vars
  <1>1. CASE k = target[r]
    <2>1. Len(idle'[k]) = 0
      BY <1>t, <1>1 DEF NoIdle
    <2>2. Cardinality(Users(k)') \in Nat /\ Cardinality(Users(k)') <= MaxIdle
      <3>1. \A l \in Keys : Cardinality(Users(l)') \in Nat /\ Cardinality(Users(l)') <= MaxIdle
        BY UsersCountedNext
      <3> QED
        BY <3>1
    <2> QED
      BY <2>1, <2>2
  <1>2. CASE k # target[r]
    <2>1. Users(k)' = Users(k)
      BY <1>t, <1>2 DEF Users, Uses, TaskTypeOK
    <2> QED
      BY <1>t, <2>1 DEF RoomForUsers
  <1> QED
    BY <1>1, <1>2

\* An idle connection that is taken becomes one in use.
LEMMA PopIdleStep ==
  ASSUME TIInv, PermitsBounded, ActiveArePermitted, RoomForUsers, NEW r \in Requests, PopIdle(r)
  PROVE  RoomForUsers'
  <1> SUFFICES ASSUME NEW k \in Keys
               PROVE  Len(idle'[k]) + Cardinality(Users(k)') <= MaxIdle
    BY DEF RoomForUsers
  <1>t. TypeOK /\ TaskTypeOK /\ TargetSet /\ LeaseMatchesPhase
    BY DEF TIInv, IInv
  <1>1. /\ Acquire(r, target[r]) /\ target[r] \in Keys /\ target' = target
        /\ pc' = [pc EXCEPT ![r] = "probe"] /\ pc[r] = "acquire"
    BY <1>t DEF PopIdle, Goto, TargetSet
  <1>2. /\ lease[r].at = "none" /\ lease'[r].at = "held" /\ Others(r)
        /\ lease'[r].key = target[r]
    BY <1>t, <1>1, LeaseMoves
  <1>3. /\ idle[k] \in Seq(Conns) /\ Len(idle[k]) \in Nat
        /\ k # target[r] => idle'[k] = idle[k]
        /\ k = target[r] => Len(idle[k]) > 0 /\ Len(idle'[k]) = Len(idle[k]) - 1
    <2>1. idle \in [Keys -> Seq(Conns)] /\ idle[target[r]] # <<>>
          /\ idle' = [idle EXCEPT ![target[r]] = SubSeq(idle[target[r]], 1, Len(idle[target[r]]) - 1)]
      BY <1>t, <1>1 DEF Acquire, TypeOK
    <2>2. /\ idle'[target[r]] = SubSeq(idle[target[r]], 1, Len(idle[target[r]]) - 1)
          /\ idle[target[r]] \in Seq(Conns) /\ Len(idle[target[r]]) \in Nat
          /\ Len(idle[target[r]]) # 0
      BY <1>1, <2>1
    <2>3. Len(idle'[target[r]]) = Len(idle[target[r]]) - 1
      BY <2>2
    <2>4. k # target[r] => idle'[k] = idle[k]
      BY <2>1
    <2>5. idle[k] \in Seq(Conns) /\ Len(idle[k]) \in Nat
      BY <2>1
    <2>6. k = target[r] => Len(idle[k]) > 0 /\ Len(idle'[k]) = Len(idle[k]) - 1
      BY <2>2, <2>3
    <2> QED
      BY <2>4, <2>5, <2>6, Zenon
  <1>4. IsFiniteSet(Users(k)) /\ Cardinality(Users(k)) \in Nat
    BY <1>t, UsersCounted
  <1>5. Len(idle[k]) + Cardinality(Users(k)) <= MaxIdle
    BY DEF RoomForUsers
  <1>6. CASE k = target[r]
    <2>1. Users(k)' = Users(k) \cup {r}
      BY <1>t, <1>1, <1>2, <1>6 DEF Users, Uses, Others, TaskTypeOK
    <2>2. /\ Cardinality(Users(k)') \in Nat
          /\ Cardinality(Users(k)') <= Cardinality(Users(k)) + 1
      BY <1>4, <2>1, CountAdded, Zenon
    <2> QED
      BY <1>3, <1>4, <1>5, <1>6, <2>2, MaxIdleAssumption
  <1>7. CASE k # target[r]
    <2>1. Users(k)' = Users(k)
      BY <1>t, <1>1, <1>2, <1>7 DEF Users, Uses, Others, TaskTypeOK
    <2> QED
      BY <1>3, <1>5, <1>7, <2>1
  <1> QED
    BY <1>6, <1>7

\* A connection that is returned was one in use.
LEMMA ReleasedStep ==
  ASSUME TIInv, PermitsBounded, ActiveArePermitted, RoomForUsers, NEW r \in Requests,
         Released(r), Park(r)
  PROVE  RoomForUsers'
  <1> SUFFICES ASSUME NEW k \in Keys
               PROVE  Len(idle'[k]) + Cardinality(Users(k)') <= MaxIdle
    BY DEF RoomForUsers
  <1>t. TypeOK /\ TaskTypeOK /\ LeaseMatchesPhase
    BY DEF TIInv, IInv
  <1>1. target' = target /\ pc' = [pc EXCEPT ![r] = "done"] /\ pc[r] = "release"
    BY DEF Released, Goto
  <1>2. lease[r].at = "completed" /\ lease'[r].at = "none" /\ Others(r)
    BY <1>t, LeaseMoves
  <1>3. /\ idle[k] \in Seq(Conns) /\ Len(idle[k]) \in Nat
        /\ k # lease[r].key => idle'[k] = idle[k]
        /\ k = lease[r].key => Len(idle'[k]) = Len(idle[k]) + 1
    BY <1>t DEF Park, TypeOK
  <1>4. IsFiniteSet(Users(k)) /\ Cardinality(Users(k)) \in Nat
    BY <1>t, UsersCounted
  <1>5. Len(idle[k]) + Cardinality(Users(k)) <= MaxIdle
    BY DEF RoomForUsers
  <1>6. CASE k = lease[r].key
    <2>1. Users(k)' = Users(k) \ {r} /\ r \in Users(k)
      BY <1>t, <1>1, <1>2, <1>6 DEF Users, Uses, Others, TaskTypeOK
    <2>2. Cardinality(Users(k)') = Cardinality(Users(k)) - 1
      BY <1>4, <2>1, CountRemoved, Zenon
    <2> QED
      BY <1>3, <1>4, <1>5, <1>6, <2>2
  <1>7. CASE k # lease[r].key
    <2>1. Users(k)' = Users(k)
      BY <1>t, <1>1, <1>2, <1>7 DEF Users, Uses, Others, TaskTypeOK
    <2> QED
      BY <1>3, <1>5, <1>7, <2>1
  <1> QED
    BY <1>6, <1>7

----------------------------------------------------------------------------
\* No request has started, and nothing is idle.
LEMMA AInvInit == AInit => AInv
  <1> SUFFICES ASSUME AInit PROVE AInv
    OBVIOUS
  <1>1. TIInv
    BY TInvInit DEF AInit
  <1>2. PermitsBounded /\ ActiveArePermitted
    <2>1. permitted = {} /\ ActiveArePermitted
      BY DEF AInit, TInit, ActiveArePermitted
    <2>2. IsFiniteSet(permitted) /\ Cardinality(permitted) = 0
      BY <2>1, FS_EmptySet, Zenon
    <2> QED
      BY <2>1, <2>2, MaxIdleAssumption DEF PermitsBounded
  <1>3. ASSUME NEW k \in Keys PROVE Len(idle[k]) + Cardinality(Users(k)) <= MaxIdle
    <2>1. Users(k) = {} /\ Len(idle[k]) = 0
      BY DEF AInit, TInit, Init, NoLease, Users, Uses
    <2>2. Cardinality(Users(k)) = 0
      BY <2>1, FS_EmptySet, Zenon
    <2> QED
      BY <2>1, <2>2, MaxIdleAssumption
  <1> QED
    BY <1>1, <1>2, <1>3 DEF AInv, RoomForUsers

\* Whatever happens to the permits, a step of the adapter is one of the transport.
LEMMA AdapterTransportStep == [ANext]_avars => [TNext]_tvars
  <1>1. ASSUME NEW r \in Requests, NEW k \in Keys, NEW T \in TimeoutChoices, Grant(r, k, T)
        PROVE  TNext
    BY <1>1 DEF Grant, TNext, AwaitedStep
  <1> QED
    BY <1>1 DEF ANext, avars, Ask, GiveUp, PermitBack, TransportStep

\* Every step of the adapter keeps the count.
LEMMA AInvStep == AInv /\ [ANext]_avars => AInv'
  <1> SUFFICES ASSUME AInv, [ANext]_avars PROVE AInv'
    OBVIOUS
  <1>i. TIInv /\ PermitsBounded /\ ActiveArePermitted /\ RoomForUsers /\ TypeOK /\ TaskTypeOK
        /\ LeaseMatchesPhase
    BY DEF AInv, TIInv, IInv
  <1>t. TIInv' /\ TypeOK' /\ LeaseMatchesPhase'
    BY <1>i, AdapterTransportStep, TInvStep DEF TIInv, IInv
  <1>c. permitted \subseteq Requests /\ IsFiniteSet(permitted) /\ Cardinality(permitted) <= MaxIdle
    BY <1>i DEF PermitsBounded
  <1>u. ASSUME UNCHANGED tvars PROVE RoomForUsers'
    BY <1>i, <1>u DEF tvars, vars, RoomForUsers, Users, Uses
  <1>1. ASSUME NEW r \in Requests, Ask(r) \/ GiveUp(r) PROVE AInv'
    <2>1. UNCHANGED <<tvars, permitted>>
      BY <1>1 DEF Ask, GiveUp
    <2>2. PermitsBounded' /\ ActiveArePermitted'
      BY <1>i, <2>1 DEF tvars, PermitsBounded, ActiveArePermitted
    <2> QED
      BY <1>t, <1>u, <2>1, <2>2 DEF AInv
  <1>2. ASSUME NEW r \in Requests, PermitBack(r) PROVE AInv'
    <2>1. UNCHANGED tvars /\ permitted' = permitted \ {r} /\ pc[r] = "done" /\ r \in permitted
      BY <1>2 DEF PermitBack
    <2>2. /\ IsFiniteSet(permitted') /\ Cardinality(permitted') = Cardinality(permitted) - 1
          /\ Cardinality(permitted) \in Nat
      BY <1>c, <2>1, CountRemoved, Zenon
    <2>3. ActiveArePermitted'
      BY <1>i, <2>1 DEF tvars, ActiveArePermitted
    <2>4. PermitsBounded'
      <3>1. permitted' \subseteq Requests
        BY <1>c, <2>1
      <3>2. Cardinality(permitted') <= MaxIdle
        BY <1>c, <2>2, MaxIdleAssumption
      <3> QED
        BY <2>2, <3>1, <3>2, Zenon DEF PermitsBounded
    <2> QED
      BY <1>t, <1>u, <2>1, <2>3, <2>4 DEF AInv
  <1>3. ASSUME NEW r \in Requests, NEW k \in Keys, NEW T \in TimeoutChoices, Grant(r, k, T)
        PROVE  AInv'
    <2>1. /\ permitted' = permitted \cup {r} /\ Cardinality(permitted) < MaxIdle
          /\ Send(r, k, T) /\ pc' = [pc EXCEPT ![r] = "acquire"]
      BY <1>3 DEF Grant, Send, Goto
    <2>2. /\ IsFiniteSet(permitted') /\ Cardinality(permitted') \in Nat
          /\ Cardinality(permitted') <= Cardinality(permitted) + 1
          /\ Cardinality(permitted) \in Nat
      BY <1>c, <2>1, CountAdded, FS_CardinalityType, Zenon
    <2>3. ActiveArePermitted'
      BY <1>i, <2>1 DEF ActiveArePermitted, TaskTypeOK
    <2>4. PermitsBounded'
      <3>1. permitted' \subseteq Requests
        BY <1>c, <2>1
      <3>2. Cardinality(permitted') <= MaxIdle
        BY <2>1, <2>2, MaxIdleAssumption
      <3> QED
        BY <2>2, <3>1, <3>2, Zenon DEF PermitsBounded
    <2>5. Calm
      <3>1. /\ lease' = lease /\ idle' = idle /\ lease[r].at = "none"
            /\ target' = [target EXCEPT ![r] = k] /\ \A l \in Keys : Len(idle[l]) \in Nat
        BY <1>i, <2>1 DEF Send, vars, LeaseMatchesPhase, TypeOK
      <3> QED
        BY <1>i, <2>1, <3>1 DEF Calm, Uses, TaskTypeOK
    <2> QED
      BY <1>i, <1>t, <2>3, <2>4, <2>5, CalmStep DEF AInv
  <1>4. ASSUME TransportStep PROVE AInv'
    <2>1. TNext /\ permitted' = permitted
      BY <1>4 DEF TransportStep
    <2>2. PermitsBounded' /\ ActiveArePermitted'
      BY <1>4, <1>i, <2>1 DEF TransportStep, PermitsBounded, ActiveArePermitted
    <2>3. RoomForUsers'
      BY <1>i, <1>t, <2>1, <2>2, UseMoves, CalmStep, NoIdleStep, PopIdleStep, ReleasedStep
    <2> QED
      BY <1>t, <2>2, <2>3 DEF AInv
  <1>5. ASSUME UNCHANGED avars PROVE AInv'
    <2>1. UNCHANGED <<tvars, permitted>>
      BY <1>5 DEF avars
    <2>2. PermitsBounded' /\ ActiveArePermitted'
      BY <1>i, <2>1 DEF tvars, PermitsBounded, ActiveArePermitted
    <2> QED
      BY <1>t, <1>u, <2>1, <2>2 DEF AInv
  <1> QED
    BY <1>1, <1>2, <1>3, <1>4, <1>5 DEF ANext

\* The inductive invariant of the blocking adapter.
THEOREM AdapterPoolInvariant == ASpec => []AInv
  BY AInvInit, AInvStep, PTL DEF ASpec

\* The semaphore only restricts the transport: everything proved of the sends and
\* of their pool holds behind it.
THEOREM AdapterPoolImplementsTransport == ASpec => TSpec
  <1>1. AInit => TInit
    BY DEF AInit
  <1> QED
    BY <1>1, AdapterTransportStep, PTL DEF ASpec, TSpec

\* pool_block=True keeps its promises for any number of requests, keys and
\* permits: never more connections in use than the pool holds, never a reusable
\* one thrown away for lack of room, and no descriptor left behind.
THEOREM AdapterKeepsPromises == ASpec => []AdapterPromises
  <1>1. AInv => InUseBounded
    <2> SUFFICES ASSUME AInv
                 PROVE  Cardinality({r \in Requests : lease[r].at # "none"}) <= MaxIdle
      BY DEF InUseBounded
    <2>1. {r \in Requests : lease[r].at # "none"} \subseteq permitted
      BY DEF AInv, TIInv, LeaseMatchesPhase, ActiveArePermitted
    <2>2. IsFiniteSet(permitted) /\ Cardinality(permitted) <= MaxIdle
      BY DEF AInv, PermitsBounded
    <2>3. LET inUse == {r \in Requests : lease[r].at # "none"}
          IN  /\ Cardinality(inUse) <= Cardinality(permitted)
              /\ Cardinality(inUse) \in Nat /\ Cardinality(permitted) \in Nat
      BY <2>1, <2>2, CountSubset, Zenon
    <2> QED
      BY <2>2, <2>3, MaxIdleAssumption
  <1>2. AInv => GoodConnectionsKept
    <2> SUFFICES ASSUME AInv, NEW r \in Requests, lease[r].at = "completed"
                 PROVE  HasRoom(lease[r].key)
      BY DEF GoodConnectionsKept
    <2> DEFINE k == lease[r].key
    <2>1. k \in Keys /\ Len(idle[k]) \in Nat /\ number[k] \in {Absent, generation}
      BY DEF AInv, TIInv, IInv, TypeOK, EntriesCurrent
    <2>2. r \in Users(k)
      BY DEF Users, Uses
    <2>3. IsFiniteSet(Users(k)) /\ Cardinality(Users(k)) \in Nat
      <3>1. LeaseMatchesPhase /\ PermitsBounded /\ ActiveArePermitted
        BY DEF AInv, TIInv
      <3> QED
        BY <2>1, <3>1, UsersCounted, Zenon
    <2>4. Cardinality(Users(k)) # 0
      BY <2>2, <2>3, FS_EmptySet, Zenon
    <2>5. Len(idle[k]) + Cardinality(Users(k)) <= MaxIdle
      BY <2>1 DEF AInv, RoomForUsers
    <2> QED
      BY <2>1, <2>3, <2>4, <2>5, MaxIdleAssumption DEF HasRoom
  <1>3. ASpec => []NoSocketLeak
    BY AdapterPoolImplementsTransport, TransportImplementsPool, PoolNoSocketLeak
    DEF ImplementsPool
  <1> QED
    BY <1>1, <1>2, <1>3, AdapterPoolInvariant, PTL DEF AdapterPromises
============================================================================
