--------------------------- MODULE ConnectionPool ---------------------------
(***************************************************************************)
(* The keep-alive pool of the Rust core: transport/pool.rs with the part of *)
(* transport/mod.rs that moves a connection in and out of it (ConnectionDriver, *)
(* TransportLease, Transport::clear_pool).                                  *)
(*                                                                         *)
(* A connection is a socket, the hyper driver task spawned for it and the   *)
(* place that owns it: one slot of one idle vector, one lease, or nobody.   *)
(* Every step below is one critical section of the pool mutex or one step   *)
(* taken outside it, so that another task, the peer or clear_pool can run   *)
(* in between.  What a request does between taking and returning a lease is *)
(* left open here; module Transport says it.                               *)
(***************************************************************************)
EXTENDS Integers, Sequences

CONSTANTS
    Conns,          \* identities of the connections that may ever be opened
    Requests,       \* tasks running Transport::send and reading the response
    Keys,           \* values of PoolKey: scheme, authority, proxy, TLS, identity
    MaxIdle,        \* Pool.max_idle_per_key
    MaxGeneration,  \* bound of the model on Pool.generation_number
    NoConn,         \* the connection of a request that holds none
    NoKey           \* the key of a request that holds none

ASSUME MaxIdleAssumption == MaxIdle \in Nat
ASSUME MaxGenerationAssumption == MaxGeneration \in Nat
ASSUME NoConnAssumption == NoConn \notin Conns
ASSUME NoKeyAssumption == NoKey \notin Keys

VARIABLES
    generation,  \* Pool.generation_number
    number,      \* PoolGeneration.number by key, Absent without an entry
    idle,        \* PoolGeneration.idle by key, a stack of connections
    lease,       \* the ConnectionLease of every request
    socket,      \* the raw TCP handle a ConnectionDriver keeps
    driver,      \* ConnectionDriver.task
    peerOpen,    \* whether the peer still has its end of the socket open
    opened,      \* history: the generation in which a connection was requested
    keyOf        \* history: the key a connection was requested for

poolVars == <<generation, number, idle>>
connVars == <<socket, driver, peerOpen>>
history == <<opened, keyOf>>
vars == <<generation, number, idle, lease, socket, driver, peerOpen, opened, keyOf>>

Absent == -1
Generations == 0..MaxGeneration
Causes == {"Cancellation", "IncompleteBody", "Upload"}

\* A lease moves none -> connecting -> held -> completed -> none, or from an
\* idle connection straight to held.  "completed" is the gap in
\* TransportLease::release between marking the lease and locking the pool.
Leases ==
    [at : {"none", "connecting", "held", "completed"},
     key : Keys \cup {NoKey}, conn : Conns \cup {NoConn}, generation : Generations,
     terminal : {"Active", "CleanEof", "Dirty"}, cause : Causes \cup {"none"}]

NoLease ==
    [at |-> "none", key |-> NoKey, conn |-> NoConn, generation |-> 0,
     terminal |-> "Active", cause |-> "none"]

NewLease(at, k, c) ==
    [at |-> at, key |-> k, conn |-> c, generation |-> generation,
     terminal |-> "Active", cause |-> "none"]

\* ConnectionLease::complete and complete_dirty: key, connection and generation
\* stay.  Both act only on an active lease, which is the only kind they get.
Completed(l, terminal, cause) ==
    [at |-> "completed", key |-> l.key, conn |-> l.conn,
     generation |-> l.generation, terminal |-> terminal, cause |-> cause]

----------------------------------------------------------------------------
\* IdleConnection::is_live: the sender is open and the driver task unfinished.
IsLive(c) == driver[c] = "running"

\* ConnectionDriver::peer_is_open: a peek on the handle does not see the end.
PeerIsOpen(c) == socket[c] = "open" /\ peerOpen[c]

\* ConnectionDriver::shutdown_now, also what dropping a connection does.
Shut(C) ==
    /\ socket' = [c \in Conns |-> IF c \in C THEN "shut" ELSE socket[c]]
    /\ driver' = [c \in Conns |-> IF c \in C THEN "taken" ELSE driver[c]]

IdleConns(k) == {idle[k][i] : i \in 1..Len(idle[k])}

----------------------------------------------------------------------------
Init ==
    /\ generation = 0
    /\ number = [k \in Keys |-> Absent]
    /\ idle = [k \in Keys |-> <<>>]
    /\ lease = [r \in Requests |-> NoLease]
    /\ socket = [c \in Conns |-> "unused"]
    /\ driver = [c \in Conns |-> "unstarted"]
    /\ peerOpen = [c \in Conns |-> FALSE]
    /\ opened = [c \in Conns |-> 0]
    /\ keyOf = [c \in Conns |-> NoKey]

\* Pool::acquire: the most recently parked connection, under the pool's
\* current generation.  Nothing is known yet about its health.
Acquire(r, k) ==
    /\ lease[r].at = "none"
    /\ idle[k] # <<>>
    /\ lease' = [lease EXCEPT ![r] = NewLease("held", k, idle[k][Len(idle[k])])]
    /\ idle' = [idle EXCEPT ![k] = SubSeq(idle[k], 1, Len(idle[k]) - 1)]
    /\ UNCHANGED <<generation, number, connVars, history>>

\* connect_connection reads the generation under the lock, then starts to
\* establish: clear_pool may run at any point of the establishment.
BeginConnect(r, k, c) ==
    /\ lease[r].at = "none"
    /\ socket[c] = "unused"
    /\ lease' = [lease EXCEPT ![r] = NewLease("connecting", k, c)]
    /\ socket' = [socket EXCEPT ![c] = "dialing"]
    /\ opened' = [opened EXCEPT ![c] = generation]
    /\ keyOf' = [keyOf EXCEPT ![c] = k]
    /\ UNCHANGED <<poolVars, driver, peerOpen>>

\* The connector returned a stream: the driver now keeps a raw handle to it.
Dialed(r) ==
    /\ lease[r].at = "connecting"
    /\ socket[lease[r].conn] = "dialing"
    /\ socket' = [socket EXCEPT ![lease[r].conn] = "open"]
    /\ peerOpen' = [peerOpen EXCEPT ![lease[r].conn] = TRUE]
    /\ UNCHANGED <<poolVars, lease, driver, history>>

\* Defect for the checks: the generation is read when the connection is ready.
EstablishedInLateGeneration(r) ==
    /\ lease[r].at = "connecting"
    /\ socket[lease[r].conn] = "open"
    /\ driver' = [driver EXCEPT ![lease[r].conn] = "running"]
    /\ lease' = [lease EXCEPT ![r] = NewLease("held", lease[r].key, lease[r].conn)]
    /\ UNCHANGED <<poolVars, socket, peerOpen, history>>

\* start_http1 after the proxy and TLS handshakes, and ConnectionLease::new
\* with the generation read before the connection was requested.
Established(r) ==
    /\ lease[r].at = "connecting"
    /\ socket[lease[r].conn] = "open"
    /\ driver' = [driver EXCEPT ![lease[r].conn] = "running"]
    /\ lease' = [lease EXCEPT ![r] =
           [at |-> "held", key |-> lease[r].key, conn |-> lease[r].conn,
            generation |-> lease[r].generation, terminal |-> "Active", cause |-> "none"]]
    /\ UNCHANGED <<poolVars, socket, peerOpen, history>>

\* The ConnectionLease, or the unfinished establishment, is dropped without
\* going through the pool: an error, a deadline or a cancelled task.
DropLease(r) ==
    /\ lease[r].at \in {"connecting", "held"}
    /\ Shut({lease[r].conn})
    /\ lease' = [lease EXCEPT ![r] = NoLease]
    /\ UNCHANGED <<poolVars, peerOpen, history>>

\* TransportLease::poll_result, and the driver branch of the exchange loop:
\* ConnectionDriver::finish gives up the task and the handle.
PollDriver(r) ==
    /\ lease[r].at = "held"
    /\ driver[lease[r].conn] = "ended"
    /\ Shut({lease[r].conn})
    /\ UNCHANGED <<poolVars, lease, peerOpen, history>>

\* TransportLease::finish_now(true) up to the pool lock: the caller believes
\* the exchange ended cleanly and the connection is probed once more.
CompleteReusable(r) ==
    /\ lease[r].at = "held"
    /\ lease' = [lease EXCEPT ![r] =
           IF IsLive(lease[r].conn) /\ PeerIsOpen(lease[r].conn)
           THEN Completed(lease[r], "CleanEof", "none")
           ELSE Completed(lease[r], "Dirty", "Cancellation")]
    /\ UNCHANGED <<poolVars, connVars, history>>

\* finish_now(false), finish_incomplete_body_now, abort_and_wait,
\* abort_upload_and_wait and Drop for TransportLease, up to the pool lock.
CompleteDirty(r, cause) ==
    /\ lease[r].at = "held"
    /\ Shut({lease[r].conn})
    /\ lease' = [lease EXCEPT ![r] = Completed(lease[r], "Dirty", cause)]
    /\ UNCHANGED <<poolVars, peerOpen, history>>

\* The first test of Pool::release.
Reusable(r) ==
    /\ lease[r].terminal = "CleanEof"
    /\ lease[r].cause = "none"
    /\ lease[r].generation = generation
    /\ IsLive(lease[r].conn)

\* The second test, on the entry of the key, which the code inserts if absent.
HasRoom(k) ==
    /\ number[k] \in {Absent, generation}
    /\ Len(idle[k]) < MaxIdle

\* Pool::release parks the connection ...
Park(r) ==
    LET k == lease[r].key
    IN  /\ lease[r].at = "completed"
        /\ Reusable(r)
        /\ HasRoom(k)
        /\ number' = [number EXCEPT ![k] = generation]
        /\ idle' = [idle EXCEPT ![k] = Append(idle[k], lease[r].conn)]
        /\ lease' = [lease EXCEPT ![r] = NoLease]
        /\ UNCHANGED <<generation, connVars, history>>

\* ... or hands the lease back, and the caller drops it outside the lock.
\* A reusable lease inserts the entry of its key even when it is turned away.
Reject(r) ==
    LET k == lease[r].key
    IN  /\ lease[r].at = "completed"
        /\ ~(Reusable(r) /\ HasRoom(k))
        /\ number' = IF Reusable(r) /\ number[k] = Absent
                     THEN [number EXCEPT ![k] = generation] ELSE number
        /\ Shut({lease[r].conn})
        /\ lease' = [lease EXCEPT ![r] = NoLease]
        /\ UNCHANGED <<generation, idle, peerOpen, history>>

\* Defect for the checks: the idle vectors are drained in the same generation.
ClearIdleOnly ==
    /\ generation < MaxGeneration
    /\ idle' = [k \in Keys |-> <<>>]
    /\ Shut(UNION {IdleConns(k) : k \in Keys})
    /\ UNCHANGED <<generation, number, lease, peerOpen, history>>

\* Transport::clear_pool: Pool::clear under the lock, then the evicted
\* connections are dropped.
Clear ==
    /\ generation < MaxGeneration
    /\ generation' = generation + 1
    /\ number' = [k \in Keys |-> IF number[k] = Absent THEN Absent ELSE generation + 1]
    /\ idle' = [k \in Keys |-> <<>>]
    /\ Shut(UNION {IdleConns(k) : k \in Keys})
    /\ UNCHANGED <<lease, peerOpen, history>>

\* The peer closes its end; hyper's driver task ends by itself.
PeerCloses(c) ==
    /\ socket[c] = "open" /\ peerOpen[c]
    /\ peerOpen' = [peerOpen EXCEPT ![c] = FALSE]
    /\ UNCHANGED <<poolVars, lease, socket, driver, history>>

DriverEnds(c) ==
    /\ driver[c] = "running"
    /\ driver' = [driver EXCEPT ![c] = "ended"]
    /\ UNCHANGED <<poolVars, lease, socket, peerOpen, history>>

----------------------------------------------------------------------------
RequestStep(r) ==
    \/ \E k \in Keys : Acquire(r, k)
    \/ \E k \in Keys, c \in Conns : BeginConnect(r, k, c)
    \/ Dialed(r)
    \/ Established(r)
    \/ DropLease(r)
    \/ PollDriver(r)
    \/ CompleteReusable(r)
    \/ \E cause \in Causes : CompleteDirty(r, cause)
    \/ Park(r)
    \/ Reject(r)

ConnStep(c) == PeerCloses(c) \/ DriverEnds(c)

Next ==
    \/ \E r \in Requests : RequestStep(r)
    \/ \E c \in Conns : ConnStep(c)
    \/ Clear

Spec == Init /\ [][Next]_vars

----------------------------------------------------------------------------
\* The shapes of the pool's entries, leases and connections; a lease that exists
\* names a connection and a key.
TypeOK ==
    /\ generation \in Generations
    /\ number \in [Keys -> Generations \cup {Absent}]
    /\ idle \in [Keys -> Seq(Conns)]
    /\ lease \in [Requests -> Leases]
    /\ \A r \in Requests : lease[r].at # "none" =>
           lease[r].conn \in Conns /\ lease[r].key \in Keys
    /\ socket \in [Conns -> {"unused", "dialing", "open", "shut"}]
    /\ driver \in [Conns -> {"unstarted", "running", "ended", "taken"}]
    /\ peerOpen \in [Conns -> BOOLEAN]
    /\ opened \in [Conns -> Generations]
    /\ keyOf \in [Conns -> Keys \cup {NoKey}]

\* A connection has at most one owner: no two slots of the idle vectors, no
\* two leases, and no slot and a lease ever name the same connection, so two
\* requests never interleave their bytes on one socket.
SlotsDistinct ==
    \A k, l \in Keys : \A i \in 1..Len(idle[k]), j \in 1..Len(idle[l]) :
        idle[k][i] = idle[l][j] => k = l /\ i = j

LeasesDistinct ==
    \A r, s \in Requests :
        lease[r].at # "none" /\ lease[s].at # "none"
        /\ lease[r].conn = lease[s].conn => r = s

LeasedNotIdle ==
    \A r \in Requests, k \in Keys :
        lease[r].at # "none" => lease[r].conn \notin IdleConns(k)

ExclusiveOwnership == SlotsDistinct /\ LeasesDistinct /\ LeasedNotIdle

\* clear_pool is a barrier: a connection whose establishment began before the
\* last clear_pool never waits in the pool again, not even when the clear ran
\* while it was being established or while a response was being read from it.
ClearIsABarrier ==
    \A k \in Keys : \A c \in IdleConns(k) : opened[c] = generation

\* No idle vector holds more than pool_max_idle_per_host connections, however
\* many leases of the same key come back at once.
IdleBounded == \A k \in Keys : Len(idle[k]) <= MaxIdle

\* A connection waits only under the key it was opened for: a request never
\* gets a socket that leads to another origin, proxy or TLS identity.
KeyIsolation == \A k \in Keys : \A c \in IdleConns(k) : keyOf[c] = k

\* No descriptor leaks and none is used after it is shut: a raw handle is open
\* exactly while one slot or one lease owns it, except that a lease whose
\* driver has already been finished keeps a shut connection until it returns.
Owned(c) ==
    \/ \E k \in Keys : c \in IdleConns(k)
    \/ \E r \in Requests : lease[r].at # "none" /\ lease[r].conn = c

NoSocketLeak ==
    /\ \A c \in Conns : socket[c] \in {"dialing", "open"} => Owned(c)
    /\ \A k \in Keys : \A c \in IdleConns(k) : socket[c] = "open"

\* What the pool promises of every idle connection, for every interleaving of
\* acquisitions, returns, clears and ends of connections: one owner, of the
\* current generation, not too many of them and each under its own key.
PoolPromises == ExclusiveOwnership /\ ClearIsABarrier /\ IdleBounded /\ KeyIsolation

\* A closed connection is never used again: once shut, no step makes it live.
NoResurrection ==
    [][\A c \in Conns : socket[c] = "shut" => socket'[c] = "shut" /\ ~IsLive(c)']_vars

\* The pool implements ConnectionLifecycle: what an idle vector, a lease and a
\* socket say together about a connection is its status there, and every
\* critical section is one step of it or none.
Status(c) ==
    IF socket[c] = "unused" THEN "unused"
    ELSE IF \E k \in Keys : c \in IdleConns(k) THEN "idle"
    ELSE IF \E r \in Requests : lease[r].at # "none" /\ lease[r].conn = c
         THEN "leased"
    ELSE "closed"

Lifecycle == INSTANCE ConnectionLifecycle
    WITH status <- [c \in Conns |-> Status(c)], epoch <- opened, current <- generation

ImplementsLifecycle == Lifecycle!LifecycleSpec

\* The life of a connection goes one way: it follows ConnectionLifecycle, and
\* none that was shut is ever live again.
LifecycleKept == NoResurrection /\ ImplementsLifecycle
=============================================================================
