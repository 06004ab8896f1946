-------------------------- MODULE BlockingRuntime --------------------------
(***************************************************************************)
(* The process-local runtime of blocking.rs: the driver registry, the       *)
(* submissions that carry a result from a runtime worker to the thread that *)
(* waits, their cancellation, and what a forked child may do with all that  *)
(* it inherits.                                                            *)
(*                                                                         *)
(* A fork copies the memory of the parent and none of its threads: what is  *)
(* indexed by a process below is that process's own copy, and the tasks run *)
(* only in the process that submitted them.  The parent forks once, while   *)
(* the registry is not locked, which is the case the repository supports.   *)
(***************************************************************************)
EXTENDS Integers

CONSTANTS
    Submissions,  \* identities of the submissions made in either process
    MaxSerial     \* bound of the model on DriverRegistry.next_generation

ASSUME MaxSerialAssumption == MaxSerial \in Nat

Processes == {"parent", "child"}

VARIABLES
    forked,     \* the child exists
    registry,   \* by process: the process of DriverRegistry.current, or none
    serial,     \* by process: DriverRegistry.next_generation
    client,     \* by process: the process of the driver its clients hold
    stamp,      \* by process: SUBMISSION_PROCESS_ID
    resetting,  \* by process: a thread is between the swap and the stores
    count,      \* by process: OUTSTANDING_SUBMISSIONS; below zero it would wrap
    handle,     \* by process and submission: the BlockingSubmission
    channel,    \* by process and submission: the channel of the result
    task,       \* the spawned task, in its home process
    home,       \* BlockingSubmission.process_id
    abortedBy,  \* the processes that called abort on a task
    outputs,    \* history: how often an output was handed out
    verdict     \* history: the last error a waiter was given

driverVars == <<registry, serial, client, stamp, resetting>>
runVars == <<task, home, abortedBy>>
seen == <<outputs, verdict>>
vars == <<forked, driverVars, count, handle, channel, runVars, seen>>

\* The states of a BlockingSubmission: where it is, whether it still has its
\* receiver, a buffered output, and the flag that cancel sets.
Handles ==
    [at : {"none", "open", "waiting", "gone"}, receiver : BOOLEAN, ready : BOOLEAN,
     cancelled : BOOLEAN]

NoHandle == [at |-> "none", receiver |-> FALSE, ready |-> FALSE, cancelled |-> FALSE]
Alive(p) == p = "parent" \/ forked

Init ==
    /\ forked = FALSE
    /\ registry = [p \in Processes |-> "none"]
    /\ serial = [p \in Processes |-> 0]
    /\ client = [p \in Processes |-> "none"]
    /\ stamp = [p \in Processes |-> "none"]
    /\ resetting = [p \in Processes |-> FALSE]
    /\ count = [p \in Processes |-> 0]
    /\ handle = [p \in Processes |-> [s \in Submissions |-> NoHandle]]
    /\ channel = [p \in Processes |-> [s \in Submissions |-> "empty"]]
    /\ task = [s \in Submissions |-> "none"]
    /\ home = [s \in Submissions |-> "none"]
    /\ abortedBy = [s \in Submissions |-> {}]
    /\ outputs = [s \in Submissions |-> 0]
    /\ verdict = [s \in Submissions |-> "none"]

Inherit(f) == [f EXCEPT !["child"] = f["parent"]]

\* fork: an external step.
Fork ==
    /\ ~forked
    /\ forked' = TRUE
    /\ registry' = Inherit(registry) /\ serial' = Inherit(serial)
    /\ client' = Inherit(client) /\ stamp' = Inherit(stamp)
    /\ count' = Inherit(count) /\ channel' = Inherit(channel)
    /\ handle' = [handle EXCEPT !["child"] =
           [s \in Submissions |-> IF handle["parent"][s].at = "waiting" THEN NoHandle
                                  ELSE handle["parent"][s]]]
    /\ UNCHANGED <<resetting, runVars, seen>>

\* DriverRegistry::driver_for, under the registry lock: an inherited driver is
\* forgotten, never dropped, and the counters of the parent are reset.
DriverFor(p) ==
    /\ Alive(p)
    /\ IF registry[p] = p THEN UNCHANGED <<registry, serial, stamp, count>>
       ELSE /\ serial[p] < MaxSerial
            /\ registry' = [registry EXCEPT ![p] = p]
            /\ serial' = [serial EXCEPT ![p] = @ + 1]
            /\ stamp' = [stamp EXCEPT ![p] = p]
            /\ count' = IF stamp[p] = p THEN count ELSE [count EXCEPT ![p] = 0]
    /\ client' = [client EXCEPT ![p] = p]
    /\ UNCHANGED <<forked, resetting, handle, channel, runVars, seen>>

\* DriverRegistry::clear_for_process.
Quiesce(p) ==
    /\ Alive(p) /\ registry[p] = p
    /\ registry' = [registry EXCEPT ![p] = "none"]
    /\ UNCHANGED <<forked, serial, client, stamp, resetting, count, handle, channel,
                   runVars, seen>>

\* outstanding_submission_count calls ensure_submission_process without the
\* lock: another thread may run between its swap and its stores.
CountSwap(p) ==
    /\ Alive(p) /\ stamp[p] # p
    /\ stamp' = [stamp EXCEPT ![p] = p]
    /\ resetting' = [resetting EXCEPT ![p] = TRUE]
    /\ UNCHANGED <<forked, registry, serial, client, count, handle, channel, runVars, seen>>

CountStore(p) ==
    /\ resetting[p]
    /\ resetting' = [resetting EXCEPT ![p] = FALSE]
    /\ count' = [count EXCEPT ![p] = 0]
    /\ UNCHANGED <<forked, registry, serial, client, stamp, handle, channel, runVars, seen>>

\* submit_for_process.  A driver of another process is refused.
Submit(p, s) ==
    /\ Alive(p) /\ client[p] = p
    /\ task[s] = "none"
    /\ task' = [task EXCEPT ![s] = "running"]
    /\ home' = [home EXCEPT ![s] = p]
    /\ count' = [count EXCEPT ![p] = @ + 1]
    /\ handle' = [handle EXCEPT ![p][s] =
           [at |-> "open", receiver |-> TRUE, ready |-> FALSE, cancelled |-> FALSE]]
    /\ UNCHANGED <<forked, driverVars, channel, abortedBy, seen>>

----------------------------------------------------------------------------
(* The worker.                                                              *)

\* sender.send(output), which nobody may be waiting for any more ...
SendOutput(s) ==
    /\ task[s] = "running"
    /\ task' = [task EXCEPT ![s] = "sent"]
    /\ channel' = [channel EXCEPT ![home[s]][s] = "value"]
    /\ UNCHANGED <<forked, driverVars, count, handle, home, abortedBy, seen>>

\* ... and only then the end of the task, which drops its OutstandingSubmission.
TaskEnds(s) ==
    /\ task[s] = "sent"
    /\ task' = [task EXCEPT ![s] = "ended"]
    /\ count' = [count EXCEPT ![home[s]] = @ - 1]
    /\ UNCHANGED <<forked, driverVars, handle, channel, home, abortedBy, seen>>

\* Defect for the checks: the waiter is not woken by a task that stops.
TaskStopsSilently(s) ==
    /\ task[s] = "running"
    /\ task' = [task EXCEPT ![s] = "stopped"]
    /\ count' = [count EXCEPT ![home[s]] = @ - 1]
    /\ UNCHANGED <<forked, driverVars, handle, channel, home, abortedBy, seen>>

\* An abort, a panic or the end of the runtime drops the future with the
\* sender in it.
TaskStops(s) ==
    /\ task[s] = "running"
    /\ task' = [task EXCEPT ![s] = "stopped"]
    /\ count' = [count EXCEPT ![home[s]] = @ - 1]
    /\ channel' = [channel EXCEPT ![home[s]][s] = "closed"]
    /\ UNCHANGED <<forked, driverVars, handle, home, abortedBy, seen>>

----------------------------------------------------------------------------
(* The owner of the handle, in the process where it is used.                *)

Open(p, s) == Alive(p) /\ handle[p][s].at = "open"

\* Defect for the checks: the process of the handle is not compared.
ValidAlways(p, s) == TRUE

\* validate_process: in another process every call returns StaleProcess.
Valid(p, s) == home[s] = p

StoppedError(p, s) == IF handle[p][s].cancelled THEN "cancelled" ELSE "stopped"

\* The result left the channel: the closed channel stays closed.
Received(p, s) ==
    channel' = [channel EXCEPT ![p][s] = IF @ = "value" THEN "closed" ELSE @]

\* wait_ready_timeout buffers an output; a timeout changes nothing, and an
\* error leaves the receiver in place.
WaitReady(p, s) ==
    /\ Open(p, s) /\ Valid(p, s) /\ handle[p][s].receiver /\ ~handle[p][s].ready
    /\ \/ /\ channel[p][s] = "value"
          /\ handle' = [handle EXCEPT ![p][s].ready = TRUE]
          /\ Received(p, s)
          /\ UNCHANGED verdict
       \/ /\ channel[p][s] = "closed"
          /\ verdict' = [verdict EXCEPT ![s] = StoppedError(p, s)]
          /\ UNCHANGED <<handle, channel>>
    /\ UNCHANGED <<forked, driverVars, count, runVars, outputs>>

\* An output that is buffered or in the channel, or the error without one.
HandOut(p, s) ==
    IF handle[p][s].ready \/ channel[p][s] = "value"
    THEN outputs' = [outputs EXCEPT ![s] = @ + 1] /\ UNCHANGED verdict
    ELSE verdict' = [verdict EXCEPT ![s] = StoppedError(p, s)] /\ UNCHANGED outputs

\* try_wait, when there is something to report.
TryWait(p, s) ==
    /\ Open(p, s) /\ Valid(p, s) /\ handle[p][s].receiver
    /\ handle[p][s].ready \/ channel[p][s] # "empty"
    /\ HandOut(p, s)
    /\ IF handle[p][s].ready THEN UNCHANGED channel ELSE Received(p, s)
    /\ handle' = [handle EXCEPT ![p][s].ready = FALSE, ![p][s].receiver = FALSE]
    /\ UNCHANGED <<forked, driverVars, count, runVars>>

\* wait owns the handle and blocks its thread ...
BeginWait(p, s) ==
    /\ Open(p, s) /\ Valid(p, s) /\ handle[p][s].receiver
    /\ handle' = [handle EXCEPT ![p][s].at = "waiting"]
    /\ UNCHANGED <<forked, driverVars, count, channel, runVars, seen>>

\* ... until there is an output or no sender, and then drops it, which aborts a
\* task that is at its end.
EndWait(p, s) ==
    /\ handle[p][s].at = "waiting"
    /\ handle[p][s].ready \/ channel[p][s] # "empty"
    /\ HandOut(p, s)
    /\ Received(p, s)
    /\ handle' = [handle EXCEPT ![p][s] = [NoHandle EXCEPT !.at = "gone"]]
    /\ abortedBy' = [abortedBy EXCEPT ![s] = @ \cup {p}]
    /\ UNCHANGED <<forked, driverVars, count, task, home>>

\* cancel: the flag first, then the abort.
CancelTask(p, s) ==
    /\ Open(p, s) /\ Valid(p, s) /\ handle[p][s].receiver
    /\ handle' = [handle EXCEPT ![p][s].cancelled = TRUE]
    /\ abortedBy' = [abortedBy EXCEPT ![s] = @ \cup {p}]
    /\ UNCHANGED <<forked, driverVars, count, channel, task, home, seen>>

\* Drop for BlockingSubmission: at home it aborts, elsewhere it forgets.
DropHandle(p, s) ==
    /\ Open(p, s)
    /\ handle' = [handle EXCEPT ![p][s] = [NoHandle EXCEPT !.at = "gone"]]
    /\ abortedBy' = IF home[s] = p THEN [abortedBy EXCEPT ![s] = @ \cup {p}] ELSE abortedBy
    /\ UNCHANGED <<forked, driverVars, count, channel, task, home, seen>>

----------------------------------------------------------------------------
Next ==
    \/ Fork
    \/ \E p \in Processes : DriverFor(p) \/ Quiesce(p) \/ CountSwap(p) \/ CountStore(p)
    \/ \E s \in Submissions : SendOutput(s) \/ TaskEnds(s) \/ TaskStops(s)
    \/ \E p \in Processes, s \in Submissions :
           \/ Submit(p, s) \/ WaitReady(p, s) \/ TryWait(p, s) \/ BeginWait(p, s)
           \/ EndWait(p, s) \/ CancelTask(p, s) \/ DropHandle(p, s)

Spec == Init /\ [][Next]_vars

\* A thread whose channel has something for it wakes up, and an aborted task is
\* dropped by its worker, which every await of it allows.
Fairness ==
    \A s \in Submissions :
        /\ \A p \in Processes : WF_vars(EndWait(p, s))
        /\ WF_vars(abortedBy[s] # {} /\ TaskStops(s))

FairSpec == Spec /\ Fairness

----------------------------------------------------------------------------
\* The shapes of registry, handles and channels; a spawned task has a home.
RuntimeTypeOK ==
    /\ registry \in [Processes -> Processes \cup {"none"}]
    /\ client \in [Processes -> Processes \cup {"none"}]
    /\ serial \in [Processes -> 0..MaxSerial]
    /\ count \in [Processes -> Int]
    /\ channel \in [Processes -> [Submissions -> {"empty", "value", "closed"}]]
    /\ handle \in [Processes -> [Submissions -> Handles]]
    /\ task \in [Submissions -> {"none", "running", "sent", "ended", "stopped"}]
    /\ \A s \in Submissions : task[s] # "none" => home[s] \in Processes

\* An output is handed out once, although the handle and the channel with a
\* buffered output exist in both processes after a fork.
OutputOnce == \A s \in Submissions : outputs[s] <= 1

\* A waiter is told that its task stopped or was cancelled only if the task has
\* no output for it: a cancellation that comes too late loses nothing, and a
\* task that nobody cancelled is never reported as cancelled.
VerdictIsHonest ==
    \A s \in Submissions :
        /\ verdict[s] # "none" => task[s] = "stopped" /\ outputs[s] = 0
        /\ verdict[s] = "cancelled" => abortedBy[s] # {}

\* What a child does with inherited handles never reaches the parent: a task is
\* aborted only from its own process.
AbortedAtHome == \A s \in Submissions : abortedBy[s] \subseteq {home[s]}

\* A child never blocks on a task that cannot run in it.
NoForeignWait ==
    \A p \in Processes, s \in Submissions : handle[p][s].at = "waiting" => home[s] = p

\* Across a fork every result stays with the process of its task: an output is
\* handed out once, an error is reported only for a task that has none, and a
\* child neither aborts nor waits for a task of its parent.
ResultsStayHome == OutputOnce /\ VerdictIsHonest /\ AbortedAtHome /\ NoForeignWait

\* A blocked wait returns once its task is cancelled or has produced an output,
\* whichever of the two comes first.
WaitReturns ==
    \A p \in Processes, s \in Submissions :
        handle[p][s].at = "waiting" /\ (handle[p][s].cancelled \/ task[s] # "running")
            ~> handle[p][s].at # "waiting"
=============================================================================
