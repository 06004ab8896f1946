---------------------------- MODULE OriginBridge ----------------------------
(***************************************************************************)
(* The origin-thread pump of the Python extension (runtime.rs, bridge.rs).  *)
(* A call of the extension submits a future to the runtime and pumps on its *)
(* own OS thread: it checks Python's signals, asks for the result, executes *)
(* the actions the worker sends and replies.  A callback run by an action   *)
(* may make another call, which pumps on top of the first.  A signal        *)
(* cancels the submission; an owned call whose worker does not stop in time *)
(* leaves the owner of its Python objects in the quarantine of the thread.  *)
(*                                                                         *)
(* One origin thread, any number of workers.  `owner' stands for the Python *)
(* objects an execute closure works on: moved into an owned call, borrowed  *)
(* from the caller's frame by the others.  Replies withheld by the session  *)
(* harness, and phases recorded for its audits, are left out: of the phases *)
(* a pump records none keeps an entry from being reaped.                    *)
(***************************************************************************)
EXTENDS Integers, Sequences, FiniteSets

CONSTANTS
    Calls,            \* identities of the calls, each made at most once
    Kinds,            \* the drives in use, of {"owned", "borrowed"}
    MaxAsks,          \* bound of the model on the actions of one worker
    MaxSignals,       \* bound of the model on the signals delivered
    DestructorsCall,  \* a destructor of a Python object may call the extension
    None              \* no call

ASSUME KindsAssumption == Kinds \subseteq {"owned", "borrowed"}
ASSUME BoundsAssumption == MaxAsks \in Nat /\ MaxSignals \in Nat
ASSUME DestructorsAssumption == DestructorsCall \in BOOLEAN
ASSUME NoneAssumption == None \notin Calls

VARIABLES
    stack,      \* the calls in progress on the origin thread, innermost last
    pc,         \* by call: where its pump is
    kind,       \* by call: the drive it uses
    saved,      \* by call: ActiveOriginSubmissionGuard.0
    active,     \* ACTIVE_ORIGIN_SUBMISSION
    parent,     \* by call: the parent id submit recorded
    worker,     \* by call: the task of the submission
    cancelled,  \* calls with BlockingSubmission.cancelled
    asks,       \* by call: actions the worker has sent
    exchange,   \* by call: the action request and its oneshot reply
    owner,      \* by call: who has the Python objects
    terminal,   \* calls with QuarantinedOrigin.terminal
    slot,       \* by call: handler_error, the exception a callback raised
    caught,     \* by call: the exception a nested call raised in its callback
    result,     \* by call: how the call ended
    signals,    \* pending Python signals
    delivered,  \* signals delivered so far
    exited      \* the origin thread is gone

originVars == <<stack, pc, saved, active>>
taskVars == <<worker, asks>>
errorVars == <<slot, caught>>
vars == <<originVars, kind, parent, taskVars, cancelled, exchange, owner, terminal,
          errorVars, result, signals, delivered, exited>>

Ended == {"done", "failed", "stopped"}
Verdicts == {"none", "ok", "error", "signal", "stopped", "anonymous"}
Top == IF stack = <<>> THEN None ELSE stack[Len(stack)]
At(c, where) == Top = c /\ pc[c] = where

Init ==
    /\ stack = <<>> /\ active = None /\ signals = 0 /\ delivered = 0 /\ exited = FALSE
    /\ cancelled = {} /\ terminal = {}
    /\ pc = [c \in Calls |-> "idle"]
    /\ kind \in [Calls -> Kinds]
    /\ saved = [c \in Calls |-> None]
    /\ parent = [c \in Calls |-> None]
    /\ worker = [c \in Calls |-> "none"]
    /\ asks = [c \in Calls |-> 0]
    /\ exchange = [c \in Calls |-> "none"]
    /\ owner = [c \in Calls |-> "none"]
    /\ slot = [c \in Calls |-> "none"]
    /\ caught = [c \in Calls |-> "none"]
    /\ result = [c \in Calls |-> "none"]

----------------------------------------------------------------------------
(* Leaving a call: its guard restores the active submission, and the        *)
(* callback that made it sees how it ended.                                 *)

Leave(c, how, objects) ==
    /\ stack' = SubSeq(stack, 1, Len(stack) - 1)
    /\ pc' = [pc EXCEPT ![c] = "left"]
    /\ active' = saved[c]
    /\ result' = [result EXCEPT ![c] = how]
    /\ owner' = [owner EXCEPT ![c] = objects]
    /\ caught' = IF how = "ok" \/ Len(stack) = 1 THEN caught
                 ELSE [caught EXCEPT ![stack[Len(stack) - 1]] = how]

----------------------------------------------------------------------------
(* The origin thread.                                                       *)

\* Python code runs on top: the caller of the outermost call, or a callback.
PythonRuns == ~exited /\ (stack # <<>> => pc[Top] = "exec")

\* submit and the entry of a drive: the guard, before anything can fail.
Enter(c) ==
    /\ PythonRuns /\ pc[c] = "idle"
    /\ worker' = [worker EXCEPT ![c] = "running"]
    /\ owner' = [owner EXCEPT ![c] = "held"]
    /\ parent' = [parent EXCEPT ![c] = active]
    /\ saved' = [saved EXCEPT ![c] = active]
    /\ active' = c
    /\ stack' = Append(stack, c)
    /\ pc' = [pc EXCEPT ![c] = "enter"]
    /\ UNCHANGED <<kind, asks, cancelled, exchange, terminal, errorVars, result, signals,
                   delivered, exited>>

\* A destructor that runs while reap_origin_quarantine has the quarantine
\* borrowed and calls the extension: the second borrow_mut panics, and the
\* unwinding drops the submission, the receiver and the owner of that call.
\* What the destructor raises goes no further.
EnterFromDestructor(c) ==
    /\ pc[c] = "idle"
    /\ Top # None /\ pc[Top] = "finalizing"
    /\ worker' = [worker EXCEPT ![c] = "running"]
    /\ cancelled' = cancelled \cup {c}
    /\ parent' = [parent EXCEPT ![c] = active]
    /\ saved' = [saved EXCEPT ![c] = active]
    /\ owner' = [owner EXCEPT ![c] = IF kind[c] = "owned" THEN "dropped" ELSE "returned"]
    /\ pc' = [pc EXCEPT ![c] = "left"]
    /\ result' = [result EXCEPT ![c] = "panicked"]
    /\ UNCHANGED <<stack, active, kind, asks, exchange, terminal, errorVars, signals,
                   delivered, exited>>

CanReap(c) == owner[c] = "quarantined" /\ c \in terminal

\* reap_origin_quarantine at the entry of both drives.
Reap(c) ==
    /\ At(c, "enter")
    /\ LET reaped == {e \in Calls : CanReap(e)} IN
       /\ owner' = [e \in Calls |-> IF e \in reaped THEN "dropped" ELSE owner[e]]
       /\ pc' = [pc EXCEPT ![c] =
                    IF DestructorsCall /\ reaped # {} THEN "finalizing" ELSE "check"]
    /\ UNCHANGED <<stack, saved, active, kind, parent, taskVars, cancelled, exchange,
                   terminal, errorVars, result, signals, delivered, exited>>

Finalized(c) ==
    /\ At(c, "finalizing")
    /\ pc' = [pc EXCEPT ![c] = "check"]
    /\ UNCHANGED <<stack, saved, active, kind, parent, taskVars, cancelled, exchange, owner,
                   terminal, errorVars, result, signals, delivered, exited>>

\* signal_before_task_state raises: the submission is cancelled.
SignalRaised(c) ==
    /\ At(c, "check") /\ signals > 0
    /\ signals' = signals - 1
    /\ cancelled' = cancelled \cup {c}
    /\ pc' = [pc EXCEPT ![c] = "cancelling"]
    /\ UNCHANGED <<stack, saved, active, kind, parent, taskVars, exchange, owner, terminal,
                   errorVars, result, delivered, exited>>

NoSignal(c) ==
    /\ At(c, "check") /\ signals = 0
    /\ pc' = [pc EXCEPT ![c] = "poll"]
    /\ UNCHANGED <<stack, saved, active, kind, parent, taskVars, cancelled, exchange, owner,
                   terminal, errorVars, result, signals, delivered, exited>>

\* What the caller of a drive makes of a completed worker: the exception a
\* callback raised comes first, a failure without one is anonymous.
Outcome(c) ==
    IF slot[c] # "none" THEN slot[c]
    ELSE IF worker[c] = "done" THEN "ok" ELSE "anonymous"

\* try_wait has the output: the objects go back with it.
Completed(c) ==
    /\ At(c, "poll") /\ worker[c] \in {"done", "failed"}
    /\ Leave(c, Outcome(c), "returned")
    /\ UNCHANGED <<saved, kind, parent, taskVars, cancelled, exchange, terminal, slot,
                   signals, delivered, exited>>

\* try_wait fails: the worker stopped without an output.
WorkerStopped(c) ==
    /\ At(c, "poll") /\ worker[c] = "stopped"
    /\ Leave(c, "stopped", IF kind[c] = "owned" THEN "dropped" ELSE "returned")
    /\ UNCHANGED <<saved, kind, parent, taskVars, cancelled, exchange, terminal, slot,
                   signals, delivered, exited>>

NotReady(c) ==
    /\ At(c, "poll") /\ worker[c] \notin Ended
    /\ pc' = [pc EXCEPT ![c] = "receive"]
    /\ UNCHANGED <<stack, saved, active, kind, parent, taskVars, cancelled, exchange, owner,
                   terminal, errorVars, result, signals, delivered, exited>>

\* recv_timeout has an action: its callback starts.
Receive(c) ==
    /\ At(c, "receive") /\ exchange[c] = "queued"
    /\ exchange' = [exchange EXCEPT ![c] = "taken"]
    /\ caught' = [caught EXCEPT ![c] = "none"]
    /\ pc' = [pc EXCEPT ![c] = "exec"]
    /\ UNCHANGED <<stack, saved, active, kind, parent, taskVars, cancelled, owner, terminal,
                   slot, result, signals, delivered, exited>>

\* recv_timeout or, once the senders are gone, wait_ready_timeout gives up or
\* is woken: the loop starts again.
Wake(c) ==
    /\ At(c, "receive") /\ exchange[c] # "queued"
    /\ pc' = [pc EXCEPT ![c] = "check"]
    /\ UNCHANGED <<stack, saved, active, kind, parent, taskVars, cancelled, exchange, owner,
                   terminal, errorVars, result, signals, delivered, exited>>

\* The callback returns; it may have caught what a nested call raised.
CallbackReturns(c) ==
    /\ At(c, "exec")
    /\ exchange' = [exchange EXCEPT ![c] = "replied"]
    /\ pc' = [pc EXCEPT ![c] = "check"]
    /\ UNCHANGED <<stack, saved, active, kind, parent, taskVars, cancelled, owner, terminal,
                   errorVars, result, signals, delivered, exited>>

\* Defect for the checks: the exception is not stored.
CallbackRaisesUnstored(c) ==
    /\ At(c, "exec")
    /\ exchange' = [exchange EXCEPT ![c] = "refused"]
    /\ pc' = [pc EXCEPT ![c] = "check"]
    /\ UNCHANGED <<stack, saved, active, kind, parent, taskVars, cancelled, owner, terminal,
                   errorVars, result, signals, delivered, exited>>

\* The callback raises: store_handler_error and a Failed reply.
CallbackRaises(c) ==
    /\ At(c, "exec")
    /\ slot' = IF slot[c] # "none" THEN slot
               ELSE [slot EXCEPT ![c] = IF caught[c] = "none" THEN "error" ELSE caught[c]]
    /\ exchange' = [exchange EXCEPT ![c] = "refused"]
    /\ pc' = [pc EXCEPT ![c] = "check"]
    /\ UNCHANGED <<stack, saved, active, kind, parent, taskVars, cancelled, owner, terminal,
                   caught, result, signals, delivered, exited>>

\* The interpreter raises a pending signal in the code of the callback.
CallbackInterrupted(c) ==
    /\ At(c, "exec") /\ signals > 0
    /\ signals' = signals - 1
    /\ caught' = [caught EXCEPT ![c] = "signal"]
    /\ UNCHANGED <<stack, pc, saved, active, kind, parent, taskVars, cancelled, exchange,
                   owner, terminal, slot, result, delivered, exited>>

\* cancel_with_bounded_wait and cancel_and_wait see the worker end.
CancelObserved(c) ==
    /\ At(c, "cancelling") /\ worker[c] \in Ended
    /\ Leave(c, "signal", IF kind[c] = "owned" THEN "quarantined" ELSE "returned")
    /\ terminal' = IF kind[c] = "owned" THEN terminal \cup {c} ELSE terminal
    /\ UNCHANGED <<saved, kind, parent, taskVars, cancelled, exchange, slot, signals,
                   delivered, exited>>

\* Defect for the checks: the bounded wait gives the objects back.
CancelTimesOutReturning(c) ==
    /\ At(c, "cancelling") /\ kind[c] = "owned" /\ worker[c] \notin Ended
    /\ Leave(c, "signal", "returned")
    /\ UNCHANGED <<saved, kind, parent, taskVars, cancelled, exchange, terminal, slot,
                   signals, delivered, exited>>

\* cancel_with_bounded_wait gives up: retain_origin_after_cancellation.
CancelTimesOut(c) ==
    /\ At(c, "cancelling") /\ kind[c] = "owned" /\ worker[c] \notin Ended
    /\ Leave(c, "signal", "quarantined")
    /\ UNCHANGED <<saved, kind, parent, taskVars, cancelled, exchange, terminal, slot,
                   signals, delivered, exited>>

\* take_origin_quarantine_owner and reap_origin_quarantine_token, by the
\* Python code on top.
TakeOwner(c) ==
    /\ PythonRuns /\ CanReap(c)
    /\ \E objects \in {"returned", "dropped"} : owner' = [owner EXCEPT ![c] = objects]
    /\ UNCHANGED <<originVars, kind, parent, taskVars, cancelled, exchange, terminal,
                   errorVars, result, signals, delivered, exited>>

\* The thread's quarantine is destroyed: QuarantinedOrigin::drop forgets what
\* a live worker may still need.
ThreadExits ==
    /\ stack = <<>> /\ ~exited
    /\ exited' = TRUE
    /\ owner' = [c \in Calls |->
           IF owner[c] # "quarantined" THEN owner[c]
           ELSE IF c \in terminal THEN "dropped" ELSE "forgotten"]
    /\ UNCHANGED <<originVars, kind, parent, taskVars, cancelled, exchange, terminal,
                   errorVars, result, signals, delivered>>

----------------------------------------------------------------------------
(* The workers, the waiters and the process.                                *)

\* ActionSender::request: the action is queued and the task suspends.
Ask(c) ==
    /\ worker[c] = "running" /\ asks[c] < MaxAsks
    /\ asks' = [asks EXCEPT ![c] = @ + 1]
    /\ worker' = [worker EXCEPT ![c] = "waiting"]
    /\ exchange' = [exchange EXCEPT ![c] = "queued"]
    /\ UNCHANGED <<originVars, kind, parent, cancelled, owner, terminal, errorVars, result,
                   signals, delivered, exited>>

\* Defect for the checks: a failed action is not answered.
AnsweredOnlyOnSuccess(c) ==
    /\ worker[c] = "waiting" /\ exchange[c] = "replied"
    /\ worker' = [worker EXCEPT ![c] = "running"]
    /\ exchange' = [exchange EXCEPT ![c] = "none"]
    /\ UNCHANGED <<originVars, kind, parent, asks, cancelled, owner, terminal, errorVars,
                   result, signals, delivered, exited>>

\* The reply arrives; a worker whose action failed ends with that failure.
Answered(c) ==
    /\ worker[c] = "waiting" /\ exchange[c] \in {"replied", "refused"}
    /\ worker' = [worker EXCEPT ![c] = IF exchange[c] = "replied" THEN "running" ELSE "failed"]
    /\ exchange' = [exchange EXCEPT ![c] = "none"]
    /\ UNCHANGED <<originVars, kind, parent, asks, cancelled, owner, terminal, errorVars,
                   result, signals, delivered, exited>>

\* The future completes, or panics.
Finish(c) ==
    /\ worker[c] = "running"
    /\ \E how \in {"done", "stopped"} : worker' = [worker EXCEPT ![c] = how]
    /\ UNCHANGED <<originVars, kind, parent, asks, cancelled, exchange, owner, terminal,
                   errorVars, result, signals, delivered, exited>>

\* The runtime drops an aborted task at an await; code that does not yield
\* reaches none.
Aborted(c) ==
    /\ c \in cancelled /\ worker[c] \in {"running", "waiting"}
    /\ worker' = [worker EXCEPT ![c] = "stopped"]
    /\ UNCHANGED <<originVars, kind, parent, asks, cancelled, exchange, owner, terminal,
                   errorVars, result, signals, delivered, exited>>

\* The waiter thread of retain_origin_after_cancellation.
WaiterNotifies(c) ==
    /\ pc[c] = "left" /\ result[c] = "signal" /\ kind[c] = "owned" /\ c \notin terminal
    /\ worker[c] \in Ended
    /\ terminal' = terminal \cup {c}
    /\ UNCHANGED <<originVars, kind, parent, taskVars, cancelled, exchange, owner, errorVars,
                   result, signals, delivered, exited>>

\* A signal reaches the process.
Signal ==
    /\ delivered < MaxSignals /\ ~exited
    /\ signals' = signals + 1 /\ delivered' = delivered + 1
    /\ UNCHANGED <<originVars, kind, parent, taskVars, cancelled, exchange, owner, terminal,
                   errorVars, result, exited>>

\* Nothing is left to do on a thread that is gone.
Gone == exited /\ UNCHANGED vars

PumpStep(c) ==
    \/ Reap(c) \/ Finalized(c) \/ SignalRaised(c) \/ NoSignal(c) \/ Completed(c)
    \/ WorkerStopped(c) \/ NotReady(c) \/ Receive(c) \/ Wake(c)
    \/ CancelObserved(c) \/ CancelTimesOut(c)

CallbackStep(c) ==
    CallbackReturns(c) \/ CallbackRaises(c) \/ CallbackInterrupted(c)

WorkerStep(c) == Ask(c) \/ Answered(c) \/ Finish(c) \/ Aborted(c)

Next ==
    \/ \E c \in Calls : \/ Enter(c) \/ EnterFromDestructor(c) \/ PumpStep(c)
                        \/ CallbackStep(c) \/ TakeOwner(c) \/ WorkerStep(c)
                        \/ WaiterNotifies(c)
    \/ Signal \/ ThreadExits \/ Gone

Spec == Init /\ [][Next]_vars

\* The pump runs on an OS thread the scheduler serves, with timed waits only.
\* Nothing is asked of the workers or of the callbacks.
PumpSpec == Spec /\ \A c \in Calls : WF_vars(PumpStep(c))

\* What a caller must grant to be owed a return: callbacks end and workers go
\* on (the futures have deadlines of their own and suspend where they wait).
Cooperation ==
    \A c \in Calls : /\ WF_vars(CallbackReturns(c) \/ CallbackRaises(c))
                    /\ WF_vars(WorkerStep(c))

----------------------------------------------------------------------------
\* Every variable has its type.
BridgeTypeOK ==
    /\ stack \in Seq(Calls)
    /\ pc \in [Calls -> {"idle", "enter", "finalizing", "check", "poll", "receive", "exec",
                         "cancelling", "left"}]
    /\ kind \in [Calls -> Kinds]
    /\ saved \in [Calls -> Calls \cup {None}]
    /\ active \in Calls \cup {None}
    /\ parent \in [Calls -> Calls \cup {None}]
    /\ worker \in [Calls -> {"none", "running", "waiting"} \cup Ended]
    /\ cancelled \subseteq Calls
    /\ asks \in [Calls -> Nat]
    /\ exchange \in [Calls -> {"none", "queued", "taken", "replied", "refused"}]
    /\ owner \in [Calls -> {"none", "held", "returned", "quarantined", "dropped", "forgotten"}]
    /\ terminal \subseteq Calls
    /\ slot \in [Calls -> Verdicts]
    /\ caught \in [Calls -> Verdicts]
    /\ result \in [Calls -> Verdicts \cup {"panicked"}]
    /\ signals \in Nat
    /\ delivered \in Nat
    /\ exited \in BOOLEAN

\* The Python objects a worker's actions need are never given back or dropped
\* while that worker may still run: not by a return, a panic of the worker, a
\* signal, the expiry of the bounded wait, a reap by this or by a nested call,
\* or the teardown of the thread.  A call that panicked in a destructor is the
\* exception (see OwnerOutlivesEveryWorker).
OwnerOutlivesWorker ==
    \A c \in Calls :
        owner[c] \in {"returned", "dropped"} /\ result[c] # "panicked" => worker[c] \in Ended

\* The same without the exception: what LIFETIMES.tsv promises of the owner.
OwnerOutlivesEveryWorker ==
    \A c \in Calls : owner[c] \in {"returned", "dropped"} => worker[c] \in Ended

\* However nested calls end, the active submission is the innermost call in
\* progress, and each call recorded as its parent the one whose callback made it.
NestingIsRecorded ==
    /\ active = Top
    /\ \A i \in 1 .. Len(stack) :
          parent[stack[i]] = IF i = 1 THEN None ELSE stack[i - 1]

\* Nesting is safe: objects outlive the workers that use them, and whoever asks
\* which call is in progress is told the right one.
NestingIsSafe == OwnerOutlivesWorker /\ NestingIsRecorded

\* The fallback errors of the callers ("failed without preserving its Python
\* exception", a closed bridge) are unreachable: a call that failed because a
\* callback raised ends with that exception, or with a signal of its own.
NoAnonymousFailure == \A c \in Calls : result[c] # "anonymous"

Interruptible(c) ==
    Top = c /\ pc[c] \in {"enter", "check", "poll", "receive"} /\ signals > 0

\* A signal that finds an owned call in its pump ends that call or is left to
\* its callback, whatever the worker does, even nothing for ever.
InterruptReturns ==
    \A c \in Calls :
        Interruptible(c) /\ kind[c] = "owned" ~> pc[c] \in {"left", "exec"}

\* The same of both drives: LIFETIMES.tsv describes the bounded wait for every
\* PythonCallContext.
EveryInterruptReturns ==
    \A c \in Calls : Interruptible(c) ~> pc[c] \in {"left", "exec"}

\* Calls nested through callbacks never wait for each other in a circle: when
\* callbacks and workers cooperate every call returns.
EveryCallReturns ==
    Cooperation => \A c \in Calls : pc[c] # "idle" ~> pc[c] = "left"
============================================================================
