----------------------------- MODULE Transport -----------------------------
(***************************************************************************)
(* Transport::send of transport/mod.rs from its call to the moment the      *)
(* response body gives its lease back, for several requests at once over    *)
(* the pool of module ConnectionPool.                                       *)
(*                                                                         *)
(* Each request is a task with a program counter.  Every await point of the *)
(* code is a place where the peer, a deadline, the driver task of hyper, a  *)
(* clear_pool or the cancellation of the task may come first.  The biased   *)
(* selects of the code are priorities among events that are ready at the    *)
(* same poll; here either may be the first to be ready.                     *)
(***************************************************************************)
EXTENDS ConnectionPool

CONSTANT TimeoutChoices   \* the sets of configured timeouts to try

ASSUME TimeoutChoicesAssumption ==
    TimeoutChoices \subseteq SUBSET {"connect", "read", "total"}

VARIABLES
    pc,          \* where the task of a request is
    target,      \* the pool key of a request
    timeouts,    \* which of Timeout.connect, read and total are set
    uploading,   \* by connection: hyper still writes a request body
    responding   \* by connection: the response is not read to its end

taskVars == <<pc, target, timeouts>>
wireVars == <<uploading, responding>>
tvars == <<vars, pc, target, timeouts, uploading, responding>>

Phases == {"new", "acquire", "probe", "ready", "discard", "connect", "dial",
           "exchange", "head", "failing", "body", "release", "done"}

\* The phases in which the caller still waits inside Transport::send.
Sending == Phases \ {"new", "body", "release", "done"}

\* The connection a request holds.
Conn(r) == lease[r].conn

Goto(r, phase) == pc' = [pc EXCEPT ![r] = phase]

----------------------------------------------------------------------------
TInit ==
    /\ Init
    /\ pc = [r \in Requests |-> "new"]
    /\ target = [r \in Requests |-> NoKey]
    /\ timeouts = [r \in Requests |-> {}]
    /\ uploading = [c \in Conns |-> FALSE]
    /\ responding = [c \in Conns |-> FALSE]

\* A caller issues a request; a finished task slot stands for a later request.
\* Requests that fail validation end before they touch anything.
Send(r, k, T) ==
    /\ pc[r] \in {"new", "done"}
    /\ Goto(r, "acquire")
    /\ target' = [target EXCEPT ![r] = k]
    /\ timeouts' = [timeouts EXCEPT ![r] = T]
    /\ UNCHANGED <<vars, wireVars>>

\* One turn of the loop of acquire_connection: take an idle connection ...
PopIdle(r) ==
    /\ pc[r] = "acquire"
    /\ Acquire(r, target[r])
    /\ Goto(r, "probe")
    /\ UNCHANGED <<target, timeouts, wireVars>>

\* ... or find none and leave the loop to connect.
NoIdle(r) ==
    /\ pc[r] = "acquire"
    /\ idle[target[r]] = <<>>
    /\ Goto(r, "connect")
    /\ UNCHANGED <<vars, target, timeouts, wireVars>>

\* The probe of a popped connection, outside the lock.
ProbePasses(r) ==
    /\ pc[r] = "probe"
    /\ IsLive(Conn(r)) /\ PeerIsOpen(Conn(r))
    /\ Goto(r, "ready")
    /\ UNCHANGED <<vars, target, timeouts, wireVars>>

ProbeFails(r) ==
    /\ pc[r] = "probe"
    /\ ~(IsLive(Conn(r)) /\ PeerIsOpen(Conn(r)))
    /\ CompleteDirty(r, "Cancellation")
    /\ Goto(r, "discard")
    /\ UNCHANGED <<target, timeouts, wireVars>>

\* finish_now(false) returned: the loop tries the next idle connection.
Discarded(r) ==
    /\ pc[r] = "discard"
    /\ Reject(r)
    /\ Goto(r, "acquire")
    /\ UNCHANGED <<target, timeouts, wireVars>>

\* Defects for the checks: the connection is used without awaiting ready(), or
\* without a second probe after it.
ReadyWithoutWaiting(r) ==
    /\ pc[r] = "ready"
    /\ IsLive(Conn(r)) /\ PeerIsOpen(Conn(r))
    /\ Goto(r, "exchange")
    /\ UNCHANGED <<vars, target, timeouts, wireVars>>

ReadyWithoutProbe(r) ==
    /\ pc[r] = "ready"
    /\ ~uploading[Conn(r)] /\ ~responding[Conn(r)]
    /\ IsLive(Conn(r))
    /\ Goto(r, "exchange")
    /\ UNCHANGED <<vars, target, timeouts, wireVars>>

\* sender.ready() resolves once hyper has finished the previous exchange on
\* the connection, and the connection is probed again.
ReadyPasses(r) ==
    /\ pc[r] = "ready"
    /\ ~uploading[Conn(r)] /\ ~responding[Conn(r)]
    /\ IsLive(Conn(r)) /\ PeerIsOpen(Conn(r))
    /\ Goto(r, "exchange")
    /\ UNCHANGED <<vars, target, timeouts, wireVars>>

ReadyFails(r) ==
    /\ pc[r] = "ready"
    /\ \/ ~IsLive(Conn(r))
       \/ ~uploading[Conn(r)] /\ ~responding[Conn(r)] /\ ~PeerIsOpen(Conn(r))
    /\ CompleteDirty(r, "Cancellation")
    /\ Goto(r, "discard")
    /\ UNCHANGED <<target, timeouts, wireVars>>

\* Defect for the checks: no deadline bounds the wait for ready().
ReadyNeverTimesOut(r) == FALSE /\ UNCHANGED tvars

\* Only the total deadline bounds the wait for ready().
ReadyTimesOut(r) ==
    /\ pc[r] = "ready"
    /\ "total" \in timeouts[r]
    /\ CompleteDirty(r, "Cancellation")
    /\ Goto(r, "failing")
    /\ UNCHANGED <<target, timeouts, wireVars>>

\* connect_connection: the generation is read, then TLS roots are loaded, the
\* stream is dialed, the proxy and TLS handshakes run and hyper is started,
\* all under the earlier of the connect and total deadlines.
StartConnect(r) ==
    /\ pc[r] = "connect"
    /\ \E c \in Conns : BeginConnect(r, target[r], c)
    /\ Goto(r, "dial")
    /\ UNCHANGED <<target, timeouts, wireVars>>

StreamReady(r) ==
    /\ pc[r] = "dial"
    /\ Dialed(r)
    /\ UNCHANGED <<taskVars, wireVars>>

ConnectionReady(r) ==
    /\ pc[r] = "dial"
    /\ Established(r)
    /\ Goto(r, "exchange")
    /\ UNCHANGED <<target, timeouts, wireVars>>

\* An establishment error; the driver drops the socket it already has.
ConnectFails(r) ==
    /\ pc[r] = "dial"
    /\ DropLease(r)
    /\ Goto(r, "done")
    /\ UNCHANGED <<target, timeouts, wireVars>>

ConnectTimesOut(r) ==
    /\ timeouts[r] \cap {"connect", "total"} # {}
    /\ \/ pc[r] = "dial" /\ DropLease(r)
       \/ pc[r] = "connect" /\ UNCHANGED vars
    /\ Goto(r, "done")
    /\ UNCHANGED <<target, timeouts, wireVars>>

\* outgoing_request fails with the lease in hand, which is simply dropped.
BuildFails(r) ==
    /\ pc[r] = "exchange"
    /\ DropLease(r)
    /\ Goto(r, "done")
    /\ UNCHANGED <<target, timeouts, wireVars>>

\* The request is handed to hyper.  An empty body is complete at once.
StartExchange(r, body) ==
    /\ pc[r] = "exchange"
    /\ uploading' = [uploading EXCEPT ![Conn(r)] = body]
    /\ responding' = [responding EXCEPT ![Conn(r)] = TRUE]
    /\ Goto(r, "head")
    /\ UNCHANGED <<vars, target, timeouts>>

\* hyper took the last frame of the request body: OutgoingBody::mark_complete.
UploadCompletes(c) ==
    /\ uploading[c]
    /\ driver[c] = "running"
    /\ uploading' = [uploading EXCEPT ![c] = FALSE]
    /\ UNCHANGED <<vars, taskVars, responding>>

\* The exchange loop ends with a response head ...
ResponseHead(r) ==
    /\ pc[r] = "head"
    /\ IsLive(Conn(r))
    /\ Goto(r, "body")
    /\ UNCHANGED <<vars, target, timeouts, wireVars>>

\* ... or goes on after a driver that ended without an error ...
DriverFinishes(r) ==
    /\ pc[r] \in {"head", "body"}
    /\ PollDriver(r)
    /\ UNCHANGED <<taskVars, wireVars>>

\* completion_pending: tracked only under a read or total timeout.
UploadPending(r) ==
    /\ timeouts[r] \cap {"read", "total"} # {}
    /\ uploading[Conn(r)]

Abort(r) ==
    /\ CompleteDirty(r, IF UploadPending(r) THEN "Upload" ELSE "Cancellation")
    /\ Goto(r, "failing")
    /\ UNCHANGED <<target, timeouts, wireVars>>

\* ... or fails: hyper or the driver reports an error ...
ExchangeFails(r) ==
    /\ pc[r] = "head"
    /\ Abort(r)

\* ... or a deadline passes: the total one, or the read one, which is armed
\* only when the upload is complete.
HeadTimesOut(r) ==
    /\ pc[r] = "head"
    /\ \/ "total" \in timeouts[r]
       \/ "read" \in timeouts[r] /\ ~uploading[Conn(r)]
    /\ Abort(r)

\* The failed send gives its lease back and returns the error.
SendFails(r) ==
    /\ pc[r] = "failing"
    /\ Reject(r)
    /\ Goto(r, "done")
    /\ UNCHANGED <<target, timeouts, wireVars>>

\* The task is cancelled at one of its await points: its future is dropped.
CancelSend(r) ==
    /\ pc[r] \in {"ready", "dial", "head"}
    /\ DropLease(r)
    /\ Goto(r, "done")
    /\ UNCHANGED <<target, timeouts, wireVars>>

\* The body reached its end, or its declared length: ResponseBody::finish_now
\* decides Reusable.
BodyEnds(r) ==
    /\ pc[r] = "body"
    /\ CompleteReusable(r)
    /\ responding' = [responding EXCEPT ![Conn(r)] = FALSE]
    /\ Goto(r, "release")
    /\ UNCHANGED <<target, timeouts, uploading>>

\* Defect for the checks: a body dropped before its end is taken for complete.
BodyAbandonedAsClean(r) ==
    /\ pc[r] = "body"
    /\ CompleteReusable(r)
    /\ Goto(r, "release")
    /\ UNCHANGED <<target, timeouts, wireVars>>

\* A read, decode or protocol error, a deadline, close() or a drop of the body
\* or of the unread response: the connection is not reusable.
BodyAbandoned(r) ==
    /\ pc[r] = "body"
    /\ \E cause \in {"Cancellation", "IncompleteBody"} : CompleteDirty(r, cause)
    /\ Goto(r, "release")
    /\ UNCHANGED <<target, timeouts, wireVars>>

Released(r) ==
    /\ pc[r] = "release"
    /\ Park(r) \/ Reject(r)
    /\ Goto(r, "done")
    /\ UNCHANGED <<target, timeouts, wireVars>>

\* clear_pool from any thread; the peer; hyper's driver task.
EnvStep ==
    /\ Clear \/ \E c \in Conns : ConnStep(c)
    /\ UNCHANGED <<taskVars, wireVars>>

----------------------------------------------------------------------------
\* What the task of a request does when it is polled, without the peer.
OwnStep(r) ==
    \/ PopIdle(r) \/ NoIdle(r) \/ ProbePasses(r) \/ ProbeFails(r) \/ Discarded(r)
    \/ ReadyFails(r) \/ StartConnect(r) \/ SendFails(r) \/ Released(r)
    \/ \E body \in BOOLEAN : StartExchange(r, body)

\* What needs the peer, or the caller.
AwaitedStep(r) ==
    \/ \E k \in Keys, T \in TimeoutChoices : Send(r, k, T)
    \/ ReadyPasses(r) \/ StreamReady(r) \/ ConnectionReady(r) \/ ConnectFails(r)
    \/ BuildFails(r) \/ ResponseHead(r) \/ DriverFinishes(r) \/ ExchangeFails(r)
    \/ CancelSend(r) \/ BodyEnds(r) \/ BodyAbandoned(r)

Deadline(r) == ReadyTimesOut(r) \/ ConnectTimesOut(r) \/ HeadTimesOut(r)

TNext ==
    \/ \E r \in Requests : OwnStep(r) \/ AwaitedStep(r) \/ Deadline(r)
    \/ \E c \in Conns : UploadCompletes(c)
    \/ EnvStep

TSpec == TInit /\ [][TNext]_tvars

\* A task that can run is polled again, and a timer that is due fires.  Nothing
\* is assumed of the peer, of the caller or of hyper.
Fairness == \A r \in Requests : WF_tvars(OwnStep(r)) /\ WF_tvars(Deadline(r))

FairTSpec == TSpec /\ Fairness

----------------------------------------------------------------------------
\* The shapes of the pool and of the tasks of Transport::send.
TTypeOK ==
    /\ TypeOK
    /\ pc \in [Requests -> Phases]
    /\ target \in [Requests -> Keys \cup {NoKey}]
    /\ timeouts \in [Requests -> TimeoutChoices \cup {{}}]
    /\ uploading \in [Conns -> BOOLEAN]
    /\ responding \in [Conns -> BOOLEAN]

\* A connection with response bytes that nobody read never waits in the pool,
\* whichever of end, error, close, drop, deadline or cancellation ended its use.
ParkedIsDrained == \A k \in Keys : \A c \in IdleConns(k) : ~responding[c]

\* HTTP/1.1 exchanges on one connection never overlap: a request is written
\* only after the previous body was sent and its response was read, although
\* a response may end before its upload does.
NoOverlap ==
    [][\A c \in Conns : responding'[c] /\ ~responding[c] => ~uploading[c]]_tvars

\* The connection waits for its next request: in the pool, or with a send that has
\* not yet taken it for good.
Waiting(c) ==
    \/ \E k \in Keys : c \in IdleConns(k)
    \/ \E r \in Requests : lease[r].conn = c /\ pc[r] \in {"probe", "ready"}

Stale(c) == ~(IsLive(c) /\ PeerIsOpen(c))

\* A connection that the peer closed, or whose driver ended, while it waited in the
\* pool, between the two probes of acquire_connection or for hyper to become ready,
\* never carries a request again, however many sends take it up after that.
StaleNeverCarries == \A c \in Conns : [](Waiting(c) /\ Stale(c) => []~responding[c])

\* A request holds a lease exactly in the phases of its task that use one, so
\* no early return, deadline or cancellation leaves a lease behind.
LeaseMatchesPhase ==
    \A r \in Requests :
        /\ pc[r] \in {"new", "acquire", "connect", "done"} <=> lease[r].at = "none"
        /\ pc[r] = "dial" <=> lease[r].at = "connecting"
        /\ pc[r] \in {"discard", "failing", "release"} <=> lease[r].at = "completed"

\* Every way out of Transport::send and of a response body puts its lease where
\* it belongs, and only a connection whose response was read in the pool.
LeasesAreSettled == LeaseMatchesPhase /\ ParkedIsDrained

\* With a total timeout send always returns, whatever the peer, hyper or other
\* users of the connection do.
TotalBoundsSend ==
    \A r \in Requests :
        pc[r] \in Sending /\ "total" \in timeouts[r] ~> pc[r] \notin Sending

\* The connect timeout bounds the establishment, all of its handshakes included.
ConnectBoundsDial ==
    \A r \in Requests :
        pc[r] \in {"connect", "dial"} /\ "connect" \in timeouts[r]
            ~> pc[r] \notin {"connect", "dial"}

\* The read timeout bounds the wait for the response head of an uploaded request.
ReadBoundsHead ==
    \A r \in Requests :
        pc[r] = "head" /\ "read" \in timeouts[r] /\ ~uploading[Conn(r)]
            ~> pc[r] # "head"

\* Each deadline ends what it bounds, whatever the peer and hyper do.
DeadlinesHold == TotalBoundsSend /\ ConnectBoundsDial /\ ReadBoundsHead

\* Every step of the transport is a step of the pool or leaves it alone.
ImplementsPool == Spec
=============================================================================
