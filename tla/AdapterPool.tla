---------------------------- MODULE AdapterPool ----------------------------
(***************************************************************************)
(* AdapterPool of adapters.rs: a client behind the semaphore that           *)
(* HTTPAdapter(pool_block=True) asks for.  A send waits for one of MaxIdle  *)
(* permits, runs Transport::send and keeps the permit until the response    *)
(* body has given its connection back.  tokio's semaphore is external: its  *)
(* waiters are served in the order in which they came.                      *)
(***************************************************************************)
EXTENDS Transport, FiniteSets

VARIABLES
    waiting,   \* the queue of PoolCapacity.semaphore
    permitted  \* the requests that hold a PoolPermit

avars == <<tvars, waiting, permitted>>

AInit == TInit /\ waiting = <<>> /\ permitted = {}

Queued(r) == \E i \in 1..Len(waiting) : waiting[i] = r

\* send_async polls PoolCapacity::acquire.
Ask(r) ==
    /\ pc[r] \in {"new", "done"}
    /\ r \notin permitted /\ ~Queued(r)
    /\ waiting' = Append(waiting, r)
    /\ UNCHANGED <<tvars, permitted>>

\* A permit is free, and the longest waiting send goes on.  No deadline of the
\* request is counted before.
Grant(r, k, T) ==
    /\ waiting # <<>> /\ Head(waiting) = r
    /\ Cardinality(permitted) < MaxIdle
    /\ permitted' = permitted \cup {r}
    /\ waiting' = Tail(waiting)
    /\ Send(r, k, T)

\* The waiting future is dropped and leaves the queue.
GiveUp(r) ==
    /\ Queued(r)
    /\ waiting' = SelectSeq(waiting, LAMBDA q : q # r)
    /\ UNCHANGED <<tvars, permitted>>

\* Defects for the checks: the permit is dropped before the connection is
\* given back, and a failed send loses it.
PermitBackEarly(r) ==
    /\ r \in permitted
    /\ pc[r] \in {"release", "done"}
    /\ permitted' = permitted \ {r}
    /\ UNCHANGED <<tvars, waiting>>

PermitBackAfterReuse(r) ==
    /\ r \in permitted
    /\ pc[r] = "done" /\ \E k \in Keys : idle[k] # <<>>
    /\ permitted' = permitted \ {r}
    /\ UNCHANGED <<tvars, waiting>>

\* The send failed, or the body is terminal: the permit is dropped after the
\* connection was given back.
PermitBack(r) ==
    /\ r \in permitted
    /\ pc[r] = "done"
    /\ permitted' = permitted \ {r}
    /\ UNCHANGED <<tvars, waiting>>

\* What goes on inside the requests that have a permit.
TransportStep ==
    /\ TNext
    /\ \A r \in Requests : pc[r] \in {"new", "done"} => pc'[r] = pc[r]
    /\ UNCHANGED <<waiting, permitted>>

ANext ==
    \/ \E r \in Requests :
           Ask(r) \/ GiveUp(r) \/ PermitBack(r)
           \/ \E k \in Keys, T \in TimeoutChoices : Grant(r, k, T)
    \/ TransportStep

ASpec == AInit /\ [][ANext]_avars

\* The executor goes on with a task that can run, and dropped values are gone.
GrantStep(r) == \E k \in Keys, T \in TimeoutChoices : Grant(r, k, T)

AFairness ==
    \A r \in Requests :
        /\ WF_avars(OwnStep(r) /\ UNCHANGED <<waiting, permitted>>)
        /\ WF_avars(Deadline(r) /\ UNCHANGED <<waiting, permitted>>)
        /\ WF_avars(PermitBack(r))
        /\ WF_avars(GrantStep(r))

FairASpec == ASpec /\ AFairness

----------------------------------------------------------------------------
\* A blocking adapter never has more connections in use than its pool holds,
\* establishments and connections on their way back included.
InUseBounded == Cardinality({r \in Requests : lease[r].at # "none"}) <= MaxIdle

\* A blocking adapter never throws a good connection away: a reusable one that
\* comes back always finds room, for every interleaving of requests that found
\* no idle connection with others that return theirs.
GoodConnectionsKept ==
    \A r \in Requests :
        lease[r].at = "completed" /\ Reusable(r) => HasRoom(lease[r].key)

\* What pool_block=True promises: no more connections in use than the pool
\* holds, none thrown away that could be kept, and no descriptor left behind.
AdapterPromises == InUseBounded /\ GoodConnectionsKept /\ NoSocketLeak

\* The send is not stuck for a reason of its own: its caller does not keep the
\* response body, and it has a total timeout if it is on its way.
Progresses(s) == pc[s] # "body" /\ (pc[s] \in Sending => "total" \in timeouts[s])

\* If no caller keeps a response body for ever, and no send without a total
\* timeout hangs for ever, every waiting send gets its turn or gives up, although
\* sends fail, time out and are cancelled.
EveryoneGetsAPermit ==
    (\A s \in Requests : []<>Progresses(s)) =>
        \A r \in Requests : Queued(r) ~> ~Queued(r)
=============================================================================
