----------------------------- MODULE BodyStream -----------------------------
(***************************************************************************)
(* A Python request body read by a worker (body.rs).  PythonBodyAdapter, an *)
(* AsyncBody polled on the runtime, asks the origin thread for one chunk at *)
(* a time over the action channel; the origin thread reads the file, steps  *)
(* the iterator or hands out the one buffer, and replies.  A signal cancels *)
(* the worker, and the origin thread waits for its end before it lets go of *)
(* the body; an origin thread that unwinds closes the channel under the     *)
(* worker.  Chunks are numbered in the order the body yields them, 0 is an  *)
(* empty one.                                                               *)
(***************************************************************************)
EXTENDS Integers, Sequences, FiniteSets

CONSTANTS
    Bodies,   \* what the body yields: sequences over {0} \cup 1..n
    Limits    \* chunks collect_adapter asks for

ASSUME BodiesAssumption == Bodies \subseteq Seq(Nat) /\ Limits \subseteq Nat

VARIABLES
    kind,      \* OriginBodySource: "Read", "Iterator" or "Once"
    body,      \* the chunks of the body
    at,        \* chunks the origin thread has taken from it
    limit,     \* limit of collect_adapter
    adapter,   \* AdapterState: "Idle", "Waiting", "Done"
    failure,   \* AdapterFailure
    exchange,  \* the action request and its oneshot reply
    chunks,    \* collected by the worker
    worker,    \* "running", "ended" or "dropped"
    pump,      \* the origin thread
    error,     \* handler_error: an exception of the body was kept
    outcome    \* what the caller sees

streamVars == <<kind, body, at, limit, adapter, failure, exchange, chunks, worker, pump, error,
          outcome>>
bodyVars == <<kind, body, limit>>

Nothing == [is |-> "nothing", chunk |-> 0]
Msg(what, chunk) == [is |-> what, chunk |-> chunk]

\* select_body_source: a str or bytes body is one chunk; a body with read() is
\* read; another buffer is one chunk; anything else is iterated.
StreamInit ==
    /\ kind \in {"Read", "Iterator", "Once"}
    /\ body \in {b \in Bodies : kind = "Once" => Len(b) = 1}
    /\ limit \in Limits
    /\ at = 0
    /\ adapter = "Idle" /\ failure = "None" /\ exchange = Nothing /\ chunks = <<>>
    /\ worker = "running" /\ pump = "loop" /\ error = FALSE /\ outcome = "none"

-----------------------------------------------------------------------------
(* The worker: collect_adapter over PythonBodyAdapter.poll_next *)

WantsMore == Len(chunks) < limit

\* Idle: begin_action queues the action; the receiver may be gone already.
BeginAction ==
    /\ worker = "running" /\ adapter = "Idle" /\ WantsMore
    /\ IF pump = "unwound"
       THEN adapter' = "Done" /\ failure' = "ActionReceiver" /\ UNCHANGED exchange
       ELSE adapter' = "Waiting" /\ exchange' = Msg("queued", 0) /\ UNCHANGED failure
    /\ UNCHANGED <<bodyVars, at, chunks, worker, pump, error, outcome>>

FailureOf(reply) ==
    CASE reply = "failed" -> "Handler" [] reply = "closed" -> "ReplySender" [] OTHER -> "None"

\* Waiting: the reply is there.  A chunk, empty or not, leaves the adapter idle;
\* the end and every failure leave it done, and the first failure is kept.
Observe ==
    /\ worker = "running" /\ adapter = "Waiting"
    /\ exchange.is \in {"chunk", "skip", "end", "failed", "closed"}
    /\ adapter' = IF exchange.is \in {"chunk", "skip"} THEN "Idle" ELSE "Done"
    /\ failure' = IF failure = "None" THEN FailureOf(exchange.is) ELSE failure
    /\ chunks' = IF exchange.is = "chunk" THEN Append(chunks, exchange.chunk) ELSE chunks
    /\ exchange' = Nothing
    /\ UNCHANGED <<bodyVars, at, worker, pump, error, outcome>>

\* collect_adapter stops at the limit, or at the error or end it was given.
WorkerEnds ==
    /\ worker = "running"
    /\ ~WantsMore \/ adapter = "Done"
    /\ worker' = "ended"
    /\ UNCHANGED <<bodyVars, at, adapter, failure, exchange, chunks, pump, error, outcome>>

\* The runtime drops the cancelled task, with the adapter in it, at an await.
Abort ==
    /\ worker = "running" /\ pump \in {"cancelling", "unwound"}
    /\ worker' = "dropped"
    /\ UNCHANGED <<bodyVars, at, adapter, failure, exchange, chunks, pump, error, outcome>>

-----------------------------------------------------------------------------
(* The origin thread *)

Dequeue ==
    /\ pump = "loop" /\ exchange.is = "queued"
    /\ pump' = "execute"
    /\ exchange' = Msg("taken", 0)
    /\ UNCHANGED <<bodyVars, at, adapter, failure, chunks, worker, error, outcome>>

Exhausted == at = Len(body)

\* Defect for the checks: an empty chunk ends an iterator as it ends a file.
ReplyToEmptyAsEnd == "end"

\* read() says b"" at its end; an iterator and a buffer may yield an empty chunk.
ReplyToEmpty == IF kind = "Read" THEN "end" ELSE "skip"

\* body_action: the next chunk of the body, or its end.
Execute ==
    /\ pump = "execute"
    /\ pump' = "loop"
    /\ IF Exhausted THEN exchange' = Msg("end", 0) /\ UNCHANGED at
       ELSE /\ at' = at + 1
            /\ exchange' = IF body[at + 1] = 0 THEN Msg(ReplyToEmpty, 0)
                           ELSE Msg("chunk", body[at + 1])
    /\ UNCHANGED <<bodyVars, adapter, failure, chunks, worker, error, outcome>>

\* Defect for the checks: an exception is kept but the worker gets no answer.
ExecuteRaisesUnanswered ==
    /\ pump = "execute"
    /\ pump' = "loop"
    /\ error' = TRUE
    /\ UNCHANGED <<bodyVars, at, exchange, adapter, failure, chunks, worker, outcome>>

\* The body raises: store_handler_error.
ExecuteRaises ==
    /\ pump = "execute"
    /\ pump' = "loop"
    /\ error' = TRUE
    /\ exchange' = Msg("failed", 0)
    /\ UNCHANGED <<bodyVars, at, adapter, failure, chunks, worker, outcome>>

\* A panic unwinds the origin thread: the request and the receiver are dropped
\* with it and the submission is cancelled.
Unwind ==
    /\ pump \in {"loop", "execute"} /\ outcome = "none"
    /\ pump' = "unwound"
    /\ outcome' = "panic"
    /\ exchange' = IF exchange.is \in {"queued", "taken"} THEN Msg("closed", 0) ELSE exchange
    /\ UNCHANGED <<bodyVars, at, adapter, failure, chunks, worker, error>>

\* signal_before_task_state raises before the next action is taken.
Signal ==
    /\ pump = "loop" /\ outcome = "none"
    /\ pump' = "cancelling"
    /\ outcome' = "signal"
    /\ UNCHANGED <<bodyVars, at, adapter, failure, exchange, chunks, worker, error>>

\* cancel_and_wait: the worker is gone, the body may go.  The trial of the harness
\* drives its collection as an owned call instead, which waits 500 ms and then
\* leaves worker and body to the quarantine; OriginBridge has both drives.
Cancelled ==
    /\ pump = "cancelling" /\ worker # "running"
    /\ pump' = "left"
    /\ UNCHANGED <<bodyVars, at, adapter, failure, exchange, chunks, worker, error, outcome>>

Verdict(raised, failed) == IF raised THEN "raised" ELSE IF failed # "None" THEN "bridge" ELSE "ok"

\* The output is taken: an exception of the body first, then a broken bridge.
Return ==
    /\ pump = "loop" /\ worker = "ended"
    /\ pump' = "left"
    /\ outcome' = Verdict(error, failure)
    /\ UNCHANGED <<bodyVars, at, adapter, failure, exchange, chunks, worker, error>>

WorkerStep == BeginAction \/ Observe \/ WorkerEnds \/ Abort
PumpStep == Dequeue \/ Execute \/ ExecuteRaises \/ Cancelled \/ Return
StreamNext == WorkerStep \/ PumpStep \/ Unwind \/ Signal

\* The runtime runs its tasks and the pump waits with timeouts only.
StreamSpec == StreamInit /\ [][StreamNext]_streamVars /\ WF_streamVars(WorkerStep) /\ WF_streamVars(PumpStep)

-----------------------------------------------------------------------------
(* Properties *)

\* How many of the first i chunks of a body are not empty, and that s is these
\* chunks of what was taken, each at its place.
Full(b, i) == Cardinality({j \in 1..i : b[j] # 0})
IsTaken(s) ==
    /\ Len(s) = Full(body, at)
    /\ \A i \in 1..at : body[i] # 0 => s[Full(body, i)] = body[i]
InFlight == IF exchange.is = "chunk" THEN <<exchange.chunk>> ELSE <<>>

\* Every chunk taken from the body is with the worker or on its way to it, in
\* order and once; when the caller gets the chunks none was taken beyond the
\* limit, and there are fewer only if the body ended: an empty chunk ends a
\* file but not an iterator.
ChunksInOrder ==
    /\ worker # "dropped" => IsTaken(chunks \o InFlight)
    /\ outcome = "ok" =>
         /\ IsTaken(chunks)
         /\ Len(chunks) = limit \/ Exhausted \/ (kind = "Read" /\ at > 0 /\ body[at] = 0)

\* The caller gets the exception its own body raised, whatever the adapter made
\* of it, and never a short body as if it were whole.
ErrorIsKept ==
    /\ outcome = "ok" => ~error /\ failure = "None"
    /\ (error /\ pump = "left" /\ outcome # "signal") => outcome = "raised"
    /\ outcome = "raised" => error

\* Every chunk collect_adapter takes from an upload body is with the worker or on
\* its way to it, in order and once, and none beyond the limit; an empty chunk
\* ends a file but not an iterator; and the caller gets the exception that its
\* own body raised, never a short body as if it were whole.
UploadIsWhole == ChunksInOrder /\ ErrorIsKept

\* Once a signal was seen the body is not touched again, although an action may
\* already be queued.
QuietAfterSignal == [][outcome = "signal" => at' = at /\ error' = error]_streamVars

\* A body is collected, fails or is given up: no chunk is waited for forever.
CollectEnds == <>(pump \in {"left", "unwound"} /\ worker # "running")
=============================================================================
