---------------------------- MODULE WorkerProofs ----------------------------
(***************************************************************************)
(* What a worker on the runtime owes the thread that waits for it.  The     *)
(* results of the blocking runtime stay with their process, whatever the    *)
(* number of submissions and wherever the fork falls among their steps      *)
(* (BlockingRuntime); the chunks of an upload arrive whole, whatever the    *)
(* body yields and wherever it raises or a signal falls (BodyStream).       *)
(***************************************************************************)
EXTENDS BlockingRuntime, BodyStream, FiniteSetTheorems, SequenceTheorems, TLAPS

\* The types of the parts that RuntimeTypeOK leaves out.
FullTypeOK ==
    /\ RuntimeTypeOK
    /\ forked \in BOOLEAN
    /\ stamp \in [Processes -> Processes \cup {"none"}]
    /\ resetting \in [Processes -> BOOLEAN]
    /\ home \in [Submissions -> Processes \cup {"none"}]
    /\ abortedBy \in [Submissions -> SUBSET Processes]
    /\ outputs \in [Submissions -> Nat]
    /\ verdict \in [Submissions -> {"none", "stopped", "cancelled"}]

\* Before submit_for_process there is nothing: no handle, no result, no history.
Unsubmitted(s) ==
    task[s] = "none" =>
        /\ home[s] = "none" /\ abortedBy[s] = {} /\ outputs[s] = 0 /\ verdict[s] = "none"
        /\ \A p \in Processes : handle[p][s] = NoHandle /\ channel[p][s] = "empty"

\* A task lives in a process that exists, and only that process aborts it; a
\* thread blocks only there, and with its receiver.
AtHome(s) ==
    /\ task[s] # "none" => home[s] \in Processes /\ Alive(home[s])
    /\ abortedBy[s] \subseteq {home[s]}
    /\ \A p \in Processes :
          handle[p][s].at = "waiting" => home[s] = p /\ handle[p][s].receiver

\* What the owner of the handle at home can see of its task.  An output is in
\* the channel, then buffered in the handle, then handed out: in one place at a
\* time, and never lost while the receiver is there.
ResultAt(p, s) ==
    /\ task[s] = "running" =>
          channel[p][s] = "empty" /\ ~handle[p][s].ready /\ outputs[s] = 0 /\ verdict[s] = "none"
    /\ task[s] \in {"sent", "ended"} =>
          /\ channel[p][s] # "empty" /\ verdict[s] = "none" /\ outputs[s] <= 1
          /\ handle[p][s].ready => channel[p][s] = "closed" /\ outputs[s] = 0
          /\ channel[p][s] = "value" => outputs[s] = 0
          /\ handle[p][s].receiver /\ channel[p][s] = "closed" => handle[p][s].ready
    /\ task[s] = "stopped" =>
          channel[p][s] = "closed" /\ ~handle[p][s].ready /\ outputs[s] = 0
    /\ handle[p][s].cancelled => abortedBy[s] # {}
    /\ verdict[s] = "cancelled" => abortedBy[s] # {}

SubmissionInv(s) ==
    Unsubmitted(s) /\ AtHome(s) /\ \A p \in Processes : home[s] = p => ResultAt(p, s)

\* The inductive invariant behind ResultsStayHome.
RInv == FullTypeOK /\ \A s \in Submissions : SubmissionInv(s)

----------------------------------------------------------------------------
(* The types.                                                               *)

\* A handle keeps its shape in everything its owner does with it.
LEMMA HandleShapes ==
    ASSUME NEW h \in Handles
    PROVE  /\ [h EXCEPT !.ready = TRUE] \in Handles
           /\ [h EXCEPT !.ready = FALSE, !.receiver = FALSE] \in Handles
           /\ [h EXCEPT !.at = "waiting"] \in Handles
           /\ [h EXCEPT !.cancelled = TRUE] \in Handles
  BY DEF Handles

\* A handle that was never made, or was moved away, is a handle.
LEMMA NoHandleShape == NoHandle \in Handles /\ [NoHandle EXCEPT !.at = "gone"] \in Handles
  BY DEF NoHandle, Handles

HandleTables == [Processes -> [Submissions -> Handles]]

\* The step writes h into the handle of s in p and leaves every other handle.
Writes(p, s, h) ==
    /\ handle' \in HandleTables
    /\ handle'[p][s] = h
    /\ \A q \in Processes, r \in Submissions : q # p \/ r # s => handle'[q][r] = handle[q][r]

\* An assignment to one handle leaves the others.
LEMMA OneHandle ==
    ASSUME handle \in HandleTables,
           NEW p \in Processes, NEW s \in Submissions, NEW h \in Handles,
           handle' = [handle EXCEPT ![p][s] = h]
    PROVE  Writes(p, s, h)
  BY DEF HandleTables, Writes

\* What the calls on a handle do to it.
LEMMA HandleEffects ==
    ASSUME FullTypeOK, NEW p \in Processes, NEW s \in Submissions
    PROVE  /\ WaitReady(p, s) =>
                 \/ UNCHANGED handle /\ channel[p][s] # "value"
                 \/ Writes(p, s, [handle[p][s] EXCEPT !.ready = TRUE])
           /\ TryWait(p, s) =>
                 Writes(p, s, [handle[p][s] EXCEPT !.ready = FALSE, !.receiver = FALSE])
           /\ BeginWait(p, s) => Writes(p, s, [handle[p][s] EXCEPT !.at = "waiting"])
           /\ CancelTask(p, s) => Writes(p, s, [handle[p][s] EXCEPT !.cancelled = TRUE])
           /\ EndWait(p, s) \/ DropHandle(p, s) =>
                 Writes(p, s, [NoHandle EXCEPT !.at = "gone"])
  <1> DEFINE h == handle[p][s]
  <1>1. handle \in HandleTables /\ h \in Handles
    BY DEF FullTypeOK, RuntimeTypeOK, HandleTables
  <1>2. /\ [handle EXCEPT ![p][s].ready = TRUE]
              = [handle EXCEPT ![p][s] = [h EXCEPT !.ready = TRUE]]
        /\ [handle EXCEPT ![p][s].ready = FALSE, ![p][s].receiver = FALSE]
              = [handle EXCEPT ![p][s] = [h EXCEPT !.ready = FALSE, !.receiver = FALSE]]
        /\ [handle EXCEPT ![p][s].at = "waiting"]
              = [handle EXCEPT ![p][s] = [h EXCEPT !.at = "waiting"]]
        /\ [handle EXCEPT ![p][s].cancelled = TRUE]
              = [handle EXCEPT ![p][s] = [h EXCEPT !.cancelled = TRUE]]
    BY <1>1, Zenon DEF HandleTables
  <1>3. ASSUME WaitReady(p, s)
        PROVE  \/ UNCHANGED handle /\ channel[p][s] # "value"
               \/ Writes(p, s, [h EXCEPT !.ready = TRUE])
    <2>1. \/ UNCHANGED handle /\ channel[p][s] # "value"
          \/ handle' = [handle EXCEPT ![p][s] = [h EXCEPT !.ready = TRUE]]
      BY <1>2, <1>3, Zenon DEF WaitReady
    <2>2. [h EXCEPT !.ready = TRUE] \in Handles
      BY <1>1, HandleShapes
    <2> QED
      BY <1>1, <2>1, <2>2, OneHandle, Zenon
  <1>4. ASSUME TryWait(p, s) PROVE Writes(p, s, [h EXCEPT !.ready = FALSE, !.receiver = FALSE])
    <2>1. handle' = [handle EXCEPT ![p][s] = [h EXCEPT !.ready = FALSE, !.receiver = FALSE]]
      BY <1>2, <1>4, Zenon DEF TryWait
    <2>2. [h EXCEPT !.ready = FALSE, !.receiver = FALSE] \in Handles
      BY <1>1, HandleShapes
    <2> QED
      BY <1>1, <2>1, <2>2, OneHandle, Zenon
  <1>5. ASSUME BeginWait(p, s) PROVE Writes(p, s, [h EXCEPT !.at = "waiting"])
    <2>1. handle' = [handle EXCEPT ![p][s] = [h EXCEPT !.at = "waiting"]]
      BY <1>2, <1>5, Zenon DEF BeginWait
    <2>2. [h EXCEPT !.at = "waiting"] \in Handles
      BY <1>1, HandleShapes
    <2> QED
      BY <1>1, <2>1, <2>2, OneHandle, Zenon
  <1>6. ASSUME CancelTask(p, s) PROVE Writes(p, s, [h EXCEPT !.cancelled = TRUE])
    <2>1. handle' = [handle EXCEPT ![p][s] = [h EXCEPT !.cancelled = TRUE]]
      BY <1>2, <1>6, Zenon DEF CancelTask
    <2>2. [h EXCEPT !.cancelled = TRUE] \in Handles
      BY <1>1, HandleShapes
    <2> QED
      BY <1>1, <2>1, <2>2, OneHandle, Zenon
  <1>7. ASSUME EndWait(p, s) \/ DropHandle(p, s)
        PROVE  Writes(p, s, [NoHandle EXCEPT !.at = "gone"])
    BY <1>1, <1>7, NoHandleShape, OneHandle, Zenon DEF EndWait, DropHandle
  <1> QED
    BY <1>3, <1>4, <1>5, <1>6, <1>7, Zenon

\* The types hold at the start.
LEMMA InitTypes == Init => FullTypeOK
  <1> SUFFICES ASSUME Init PROVE FullTypeOK
    OBVIOUS
  <1>1. handle \in HandleTables
    BY NoHandleShape DEF Init, HandleTables
  <1>2. serial \in [Processes -> 0..MaxSerial]
    BY MaxSerialAssumption DEF Init
  <1>3. /\ registry \in [Processes -> Processes \cup {"none"}]
        /\ client \in [Processes -> Processes \cup {"none"}]
        /\ stamp \in [Processes -> Processes \cup {"none"}]
        /\ resetting \in [Processes -> BOOLEAN] /\ forked \in BOOLEAN
    BY Zenon DEF Init
  <1>4. /\ channel \in [Processes -> [Submissions -> {"empty", "value", "closed"}]]
        /\ task \in [Submissions -> {"none", "running", "sent", "ended", "stopped"}]
        /\ \A s \in Submissions : task[s] = "none"
    BY DEF Init
  <1>5. /\ home \in [Submissions -> Processes \cup {"none"}]
        /\ abortedBy \in [Submissions -> SUBSET Processes]
        /\ outputs \in [Submissions -> Nat]
        /\ verdict \in [Submissions -> {"none", "stopped", "cancelled"}]
    BY DEF Init
  <1>6. count \in [Processes -> Int]
    BY DEF Init
  <1> QED
    BY <1>1, <1>2, <1>3, <1>4, <1>5, <1>6, Zenon DEF RuntimeTypeOK, FullTypeOK, HandleTables

\* TryWait without what it does to the handle.
TryWaitRest(p, s) ==
    /\ Open(p, s) /\ Valid(p, s) /\ handle[p][s].receiver
    /\ handle[p][s].ready \/ channel[p][s] # "empty"
    /\ HandOut(p, s)
    /\ IF handle[p][s].ready THEN UNCHANGED channel ELSE Received(p, s)
    /\ UNCHANGED <<forked, driverVars, count, runVars>>

\* Every step keeps the types.
LEMMA StepTypes == FullTypeOK /\ [Next]_vars => FullTypeOK'
  <1> SUFFICES ASSUME FullTypeOK, [Next]_vars PROVE FullTypeOK'
    OBVIOUS
  <1> USE MaxSerialAssumption DEF RuntimeTypeOK, FullTypeOK, Processes
  <1>1. CASE Fork
    BY <1>1 DEF NoHandle, Handles, Fork, Inherit, runVars, seen
  <1>2. ASSUME NEW p \in Processes, DriverFor(p) PROVE FullTypeOK'
    BY <1>2 DEF DriverFor, runVars, seen
  <1>3. ASSUME NEW p \in Processes, Quiesce(p) PROVE FullTypeOK'
    BY <1>3 DEF Quiesce, runVars, seen
  <1>4. ASSUME NEW p \in Processes, CountSwap(p) PROVE FullTypeOK'
    BY <1>4 DEF CountSwap, runVars, seen
  <1>5. ASSUME NEW p \in Processes, CountStore(p) PROVE FullTypeOK'
    BY <1>5 DEF CountStore, runVars, seen
  <1>6. ASSUME NEW s \in Submissions, SendOutput(s) PROVE FullTypeOK'
    BY <1>6 DEF SendOutput, driverVars, seen
  <1>7. ASSUME NEW s \in Submissions, TaskEnds(s) PROVE FullTypeOK'
    BY <1>7 DEF TaskEnds, driverVars, seen
  <1>8. ASSUME NEW s \in Submissions, TaskStops(s) PROVE FullTypeOK'
    BY <1>8 DEF TaskStops, driverVars, seen
  <1>9. ASSUME NEW p \in Processes, NEW s \in Submissions, Submit(p, s) PROVE FullTypeOK'
    BY <1>9 DEF NoHandle, Handles, Submit, driverVars, seen
  <1>10. ASSUME NEW p \in Processes, NEW s \in Submissions, WaitReady(p, s) PROVE FullTypeOK'
    <2>1. handle' \in [Processes -> [Submissions -> Handles]]
      BY <1>10, HandleEffects, Zenon DEF Writes, HandleTables
    <2> QED
      BY <1>10, <2>1 DEF WaitReady, Received, StoppedError, driverVars, runVars
  <1>11. ASSUME NEW p \in Processes, NEW s \in Submissions, TryWait(p, s) PROVE FullTypeOK'
    <2>1. handle' \in [Processes -> [Submissions -> Handles]]
      BY <1>11, HandleEffects, Zenon DEF Writes, HandleTables
    <2> QED
      <3>1. TryWaitRest(p, s)
        BY <1>11, Zenon DEF TryWait, TryWaitRest
      <3> QED
        BY <2>1, <3>1 DEF TryWaitRest, HandOut, Received, StoppedError, driverVars, runVars
  <1>12. ASSUME NEW p \in Processes, NEW s \in Submissions, BeginWait(p, s) PROVE FullTypeOK'
    <2>1. handle' \in [Processes -> [Submissions -> Handles]]
      BY <1>12, HandleEffects, Zenon DEF Writes, HandleTables
    <2> QED
      BY <1>12, <2>1 DEF BeginWait, driverVars, runVars, seen
  <1>13. ASSUME NEW p \in Processes, NEW s \in Submissions, EndWait(p, s) PROVE FullTypeOK'
    <2>1. handle' \in [Processes -> [Submissions -> Handles]]
      BY <1>13, HandleEffects, Zenon DEF Writes, HandleTables
    <2> QED
      BY <1>13, <2>1 DEF EndWait, HandOut, Received, StoppedError, driverVars
  <1>14. ASSUME NEW p \in Processes, NEW s \in Submissions, CancelTask(p, s) PROVE FullTypeOK'
    <2>1. handle' \in [Processes -> [Submissions -> Handles]]
      BY <1>14, HandleEffects, Zenon DEF Writes, HandleTables
    <2> QED
      BY <1>14, <2>1 DEF CancelTask, driverVars, seen
  <1>15. ASSUME NEW p \in Processes, NEW s \in Submissions, DropHandle(p, s) PROVE FullTypeOK'
    BY <1>15 DEF NoHandle, Handles, DropHandle, driverVars, seen
  <1>16. CASE UNCHANGED vars
    BY <1>16 DEF vars, driverVars, runVars, seen
  <1> QED
    BY <1>1, <1>2, <1>3, <1>4, <1>5, <1>6, <1>7, <1>8, <1>9, <1>10, <1>11, <1>12, <1>13, <1>14, <1>15, <1>16 DEF Next

----------------------------------------------------------------------------
(* The results.                                                             *)

\* Nothing was submitted at the start.
LEMMA InitSubmissions == Init => \A s \in Submissions : SubmissionInv(s)
  <1> SUFFICES ASSUME Init, NEW s \in Submissions PROVE SubmissionInv(s)
    OBVIOUS
  <1>1. /\ task[s] = "none" /\ home[s] = "none" /\ abortedBy[s] = {}
        /\ outputs[s] = 0 /\ verdict[s] = "none"
        /\ \A p \in Processes : handle[p][s] = NoHandle /\ channel[p][s] = "empty"
    BY DEF Init
  <1>2. "none" \notin Processes /\ NoHandle.at = "none"
    BY DEF Processes, NoHandle
  <1> QED
    BY <1>1, <1>2 DEF SubmissionInv, Unsubmitted, AtHome, ResultAt

\* The fields of a handle after a call on it.
OtherHandlesKept(p, s) ==
    \A q \in Processes, r \in Submissions : q # p \/ r # s => handle'[q][r] = handle[q][r]

\* What wait_ready_timeout leaves of the handle.
LEMMA WaitReadyFields ==
    ASSUME FullTypeOK, NEW p \in Processes, NEW s \in Submissions, WaitReady(p, s)
    PROVE  /\ handle'[p][s].at = handle[p][s].at /\ handle'[p][s].receiver = handle[p][s].receiver
           /\ handle'[p][s].cancelled = handle[p][s].cancelled /\ (channel[p][s] = "value" => handle'[p][s].ready)
           /\ OtherHandlesKept(p, s)
  <1>1. handle[p][s] \in Handles
    BY DEF FullTypeOK, RuntimeTypeOK
  <1>2. \/ UNCHANGED handle /\ channel[p][s] # "value"
        \/ Writes(p, s, [handle[p][s] EXCEPT !.ready = TRUE])
    BY HandleEffects
  <1> QED
    BY <1>1, <1>2 DEF Writes, Handles, OtherHandlesKept

\* What try_wait leaves of the handle.
LEMMA TryWaitFields ==
    ASSUME FullTypeOK, NEW p \in Processes, NEW s \in Submissions, TryWait(p, s)
    PROVE  /\ handle'[p][s].at = handle[p][s].at /\ ~handle'[p][s].ready
           /\ handle'[p][s].cancelled = handle[p][s].cancelled /\ ~handle'[p][s].receiver
           /\ OtherHandlesKept(p, s)
  <1>1. handle[p][s] \in Handles
    BY DEF FullTypeOK, RuntimeTypeOK
  <1>2. Writes(p, s, [handle[p][s] EXCEPT !.ready = FALSE, !.receiver = FALSE])
    BY HandleEffects
  <1> QED
    BY <1>1, <1>2 DEF Writes, Handles, OtherHandlesKept

\* What cancel leaves of the handle.
LEMMA CancelTaskFields ==
    ASSUME FullTypeOK, NEW p \in Processes, NEW s \in Submissions, CancelTask(p, s)
    PROVE  /\ handle'[p][s].at = handle[p][s].at /\ handle'[p][s].receiver = handle[p][s].receiver
           /\ handle'[p][s].ready = handle[p][s].ready /\ handle'[p][s].cancelled
           /\ OtherHandlesKept(p, s)
  <1>1. handle[p][s] \in Handles
    BY DEF FullTypeOK, RuntimeTypeOK
  <1>2. Writes(p, s, [handle[p][s] EXCEPT !.cancelled = TRUE])
    BY HandleEffects
  <1> QED
    BY <1>1, <1>2 DEF Writes, Handles, OtherHandlesKept

\* What else the three calls do, place by place.
OtherResultsKept(p, s) ==
    /\ home' = home /\ task' = task /\ forked' = forked
    /\ \A q \in Processes, r \in Submissions : q # p \/ r # s => channel'[q][r] = channel[q][r]
    /\ \A r \in Submissions : r # s =>
          outputs'[r] = outputs[r] /\ verdict'[r] = verdict[r] /\ abortedBy'[r] = abortedBy[r]

\* wait_ready_timeout moves a result from the channel to the handle.
LEMMA WaitReadyKeeps ==
    ASSUME RInv, NEW p \in Processes, NEW s \in Submissions, WaitReady(p, s),
           NEW r \in Submissions
    PROVE  SubmissionInv(r)'
  <1>1. FullTypeOK /\ SubmissionInv(r) /\ SubmissionInv(s)
    BY DEF RInv
  <1>0. /\ Valid(p, s) /\ handle[p][s].receiver /\ ~handle[p][s].ready
        /\ \/ channel[p][s] = "value" /\ Received(p, s) /\ UNCHANGED verdict
           \/ /\ channel[p][s] = "closed"
              /\ verdict' = [verdict EXCEPT ![s] = StoppedError(p, s)]
              /\ UNCHANGED <<handle, channel>>
        /\ UNCHANGED <<forked, driverVars, count, runVars, outputs>>
    BY Zenon DEF WaitReady
  <1>2. OtherResultsKept(p, s) /\ OtherHandlesKept(p, s)
    <2>1. OtherHandlesKept(p, s)
      BY <1>1, WaitReadyFields
    <2> QED
      BY <1>1, <1>0, <2>1 DEF Received, driverVars, runVars, OtherResultsKept, FullTypeOK,
         RuntimeTypeOK
  <1>3. /\ home[s] = p /\ handle[p][s].receiver /\ ~handle[p][s].ready
        /\ outputs'[s] = outputs[s] /\ abortedBy'[s] = abortedBy[s]
        /\ \/ /\ channel[p][s] = "value" /\ handle'[p][s].ready
              /\ channel'[p][s] = "closed" /\ verdict'[s] = verdict[s]
           \/ /\ channel[p][s] = "closed" /\ UNCHANGED <<handle, channel>>
              /\ verdict'[s] = StoppedError(p, s)
    <2>1. channel[p][s] = "value" => handle'[p][s].ready
      BY <1>1, WaitReadyFields
    <2> QED
      BY <1>1, <1>0, <2>1 DEF Received, Valid, driverVars, runVars, FullTypeOK, RuntimeTypeOK
  <1> QED
    BY <1>1, <1>2, <1>3, WaitReadyFields
    DEF OtherResultsKept, OtherHandlesKept, StoppedError, SubmissionInv, Unsubmitted, AtHome,
        ResultAt, Alive, NoHandle

\* try_wait hands a result out once.
LEMMA TryWaitKeeps ==
    ASSUME RInv, NEW p \in Processes, NEW s \in Submissions, TryWait(p, s),
           NEW r \in Submissions
    PROVE  SubmissionInv(r)'
  <1>1. FullTypeOK /\ SubmissionInv(r) /\ SubmissionInv(s)
    BY DEF RInv
  <1>0. TryWaitRest(p, s)
    BY Zenon DEF TryWait, TryWaitRest
  <1>2. OtherResultsKept(p, s) /\ OtherHandlesKept(p, s)
    <2>1. OtherHandlesKept(p, s)
      BY <1>1, TryWaitFields
    <2> QED
      BY <1>1, <1>0, <2>1 DEF TryWaitRest, HandOut, Received, driverVars, runVars,
         OtherResultsKept, FullTypeOK, RuntimeTypeOK
  <1>3. /\ home[s] = p /\ handle[p][s].receiver /\ abortedBy'[s] = abortedBy[s]
        /\ handle[p][s].ready \/ channel[p][s] # "empty"
        /\ IF handle[p][s].ready \/ channel[p][s] = "value"
           THEN outputs'[s] = outputs[s] + 1 /\ verdict'[s] = verdict[s]
           ELSE outputs'[s] = outputs[s] /\ verdict'[s] = StoppedError(p, s)
        /\ channel'[p][s] = IF ~handle[p][s].ready /\ channel[p][s] = "value" THEN "closed"
                            ELSE channel[p][s]
    BY <1>1, <1>0 DEF TryWaitRest, HandOut, Received, Valid, driverVars, runVars, FullTypeOK, RuntimeTypeOK
  <1>4. /\ outputs[s] \in Nat /\ channel[p][s] \in {"empty", "value", "closed"}
        /\ handle[p][s].at = "open"
    BY <1>1, <1>0 DEF FullTypeOK, RuntimeTypeOK, TryWaitRest, Open
  <1>5. /\ handle'[p][s].at = handle[p][s].at /\ ~handle'[p][s].ready
        /\ handle'[p][s].cancelled = handle[p][s].cancelled /\ ~handle'[p][s].receiver
    BY <1>1, TryWaitFields
  <1>6. CASE r # s
    BY <1>1, <1>2, <1>6
    DEF OtherResultsKept, OtherHandlesKept, SubmissionInv, Unsubmitted, AtHome, ResultAt, Alive
  <1>7. CASE r = s
    <2>1. task[s] # "none"
      BY <1>1, <1>3 DEF SubmissionInv, Unsubmitted, NoHandle
    <2>2. Unsubmitted(s)'
      BY <1>2, <2>1 DEF OtherResultsKept, Unsubmitted
    <2>3. AtHome(s)'
      BY <1>1, <1>2, <1>3, <1>4, <1>5
      DEF OtherResultsKept, OtherHandlesKept, SubmissionInv, AtHome, Alive
    <2>4. ResultAt(p, s) /\ StoppedError(p, s) \in {"stopped", "cancelled"}
      BY <1>1, <1>3 DEF SubmissionInv, StoppedError
    <2>5. ResultAt(p, s)'
      BY <1>2, <1>3, <1>4, <1>5, <2>1, <2>4 DEF ResultAt, OtherResultsKept, StoppedError
    <2> QED
      BY <1>1, <1>2, <1>3, <1>7, <2>2, <2>3, <2>5 DEF SubmissionInv, OtherResultsKept
  <1> QED
    BY <1>6, <1>7

\* cancel aborts the task of its own process only.
LEMMA CancelTaskKeeps ==
    ASSUME RInv, NEW p \in Processes, NEW s \in Submissions, CancelTask(p, s),
           NEW r \in Submissions
    PROVE  SubmissionInv(r)'
  <1>1. FullTypeOK /\ SubmissionInv(r) /\ SubmissionInv(s)
    BY DEF RInv
  <1>2. OtherResultsKept(p, s) /\ OtherHandlesKept(p, s)
    <2>1. OtherHandlesKept(p, s)
      BY <1>1, CancelTaskFields
    <2>2. OtherResultsKept(p, s)
      BY <1>1, SMTT(30) DEF CancelTask, driverVars, seen, OtherResultsKept, FullTypeOK, RuntimeTypeOK
    <2> QED
      BY <2>1, <2>2
  <1>3. /\ home[s] = p /\ handle[p][s].receiver /\ abortedBy'[s] = abortedBy[s] \cup {p}
        /\ UNCHANGED <<channel, outputs, verdict>>
    BY <1>1 DEF CancelTask, Valid, driverVars, seen, FullTypeOK
  <1> QED
    BY <1>1, <1>2, <1>3, CancelTaskFields
    DEF OtherResultsKept, OtherHandlesKept, SubmissionInv, Unsubmitted, AtHome,
        ResultAt, Alive, NoHandle

\* Every step keeps what is known of every submission.
LEMMA StepSubmissions == RInv /\ [Next]_vars => \A r \in Submissions : SubmissionInv(r)'
  <1> SUFFICES ASSUME RInv, [Next]_vars, NEW r \in Submissions PROVE SubmissionInv(r)'
    OBVIOUS
  <1> FullTypeOK /\ SubmissionInv(r)
    BY DEF RInv
  <1> USE DEF SubmissionInv, Unsubmitted, AtHome, ResultAt, Alive, RuntimeTypeOK, FullTypeOK,
              Processes, NoHandle, Handles
  <1>1. CASE Fork
    BY <1>1 DEF Fork, Inherit, runVars, seen
  <1>2. ASSUME NEW p \in Processes, DriverFor(p) PROVE SubmissionInv(r)'
    BY <1>2 DEF DriverFor, runVars, seen
  <1>3. ASSUME NEW p \in Processes, Quiesce(p) PROVE SubmissionInv(r)'
    BY <1>3 DEF Quiesce, runVars, seen
  <1>4. ASSUME NEW p \in Processes, CountSwap(p) PROVE SubmissionInv(r)'
    BY <1>4 DEF CountSwap, runVars, seen
  <1>5. ASSUME NEW p \in Processes, CountStore(p) PROVE SubmissionInv(r)'
    BY <1>5 DEF CountStore, runVars, seen
  <1>6. ASSUME NEW s \in Submissions, SendOutput(s) PROVE SubmissionInv(r)'
    BY <1>6 DEF SendOutput, driverVars, seen
  <1>7. ASSUME NEW s \in Submissions, TaskEnds(s) PROVE SubmissionInv(r)'
    BY <1>7 DEF TaskEnds, driverVars, seen
  <1>8. ASSUME NEW s \in Submissions, TaskStops(s) PROVE SubmissionInv(r)'
    BY <1>8 DEF TaskStops, driverVars, seen
  <1>9. ASSUME NEW p \in Processes, NEW s \in Submissions, Submit(p, s) PROVE SubmissionInv(r)'
    BY <1>9 DEF Submit, driverVars, seen
  <1>10. ASSUME NEW p \in Processes, NEW s \in Submissions, WaitReady(p, s) PROVE SubmissionInv(r)'
    BY <1>10, WaitReadyKeeps
  <1>11. ASSUME NEW p \in Processes, NEW s \in Submissions, TryWait(p, s) PROVE SubmissionInv(r)'
    BY <1>11, TryWaitKeeps
  <1>12. ASSUME NEW p \in Processes, NEW s \in Submissions, BeginWait(p, s) PROVE SubmissionInv(r)'
    BY <1>12 DEF BeginWait, driverVars, runVars, seen, Open, Valid
  <1>13. ASSUME NEW p \in Processes, NEW s \in Submissions, EndWait(p, s) PROVE SubmissionInv(r)'
    BY <1>13 DEF EndWait, HandOut, Received, StoppedError, driverVars
  <1>14. ASSUME NEW p \in Processes, NEW s \in Submissions, CancelTask(p, s) PROVE SubmissionInv(r)'
    BY <1>14, CancelTaskKeeps
  <1>15. ASSUME NEW p \in Processes, NEW s \in Submissions, DropHandle(p, s) PROVE SubmissionInv(r)'
    BY <1>15 DEF DropHandle, driverVars, seen, Open, Valid
  <1>16. CASE UNCHANGED vars
    BY <1>16 DEF vars, driverVars, runVars, seen
  <1> QED
    BY <1>1, <1>2, <1>3, <1>4, <1>5, <1>6, <1>7, <1>8, <1>9, <1>10, <1>11, <1>12, <1>13, <1>14, <1>15, <1>16 DEF Next

\* In every state each submission is unmade, or lives in one process, which alone holds,
\* takes and aborts what it gives.
THEOREM RuntimeInvariant == Spec => []RInv
  <1>1. Init => RInv
    BY InitTypes, InitSubmissions DEF RInv
  <1>2. RInv /\ [Next]_vars => RInv'
    BY StepTypes, StepSubmissions DEF RInv
  <1> QED
    BY <1>1, <1>2, PTL DEF Spec

\* In every state of every run the registries, handles, channels and tasks of
\* both processes have their shapes, and a spawned task has a home.
THEOREM RuntimeTypeCorrect == Spec => []RuntimeTypeOK
  BY RuntimeInvariant, PTL DEF RInv, FullTypeOK

\* A result stays with the process of its task wherever a fork falls: the output
\* is handed out once although both processes hold a handle, an error is only
\* reported for a task without an output, and a child neither aborts nor waits
\* for a task of its parent.
THEOREM RuntimeResultsStayHome == Spec => []ResultsStayHome
  <1>1. RInv => ResultsStayHome
    <2> SUFFICES ASSUME RInv, NEW s \in Submissions
                 PROVE  /\ outputs[s] <= 1
                        /\ verdict[s] # "none" => task[s] = "stopped" /\ outputs[s] = 0
                        /\ verdict[s] = "cancelled" => abortedBy[s] # {}
                        /\ abortedBy[s] \subseteq {home[s]}
                        /\ \A p \in Processes : handle[p][s].at = "waiting" => home[s] = p
      BY DEF ResultsStayHome, OutputOnce, VerdictIsHonest, AbortedAtHome, NoForeignWait
    <2>1. SubmissionInv(s) /\ FullTypeOK
      BY DEF RInv
    <2> QED
      BY <2>1 DEF FullTypeOK, RuntimeTypeOK, SubmissionInv, Unsubmitted, AtHome, ResultAt, Processes
  <1> QED
    BY <1>1, RuntimeInvariant, PTL

----------------------------------------------------------------------------
(* An upload: BodyStream.                                                   *)

StreamTypeOK ==
    /\ kind \in {"Read", "Iterator", "Once"}
    /\ body \in Seq(Nat) /\ at \in 0..Len(body) /\ limit \in Nat /\ chunks \in Seq(Nat)
    /\ adapter \in {"Idle", "Waiting", "Done"}
    /\ failure \in {"None", "ActionReceiver", "Handler", "ReplySender"}
    /\ exchange \in [is : {"nothing", "queued", "taken", "chunk", "skip", "end", "failed",
                           "closed"}, chunk : Nat]
    /\ worker \in {"running", "ended", "dropped"}
    /\ pump \in {"loop", "execute", "cancelling", "unwound", "left"}
    /\ error \in BOOLEAN
    /\ outcome \in {"none", "panic", "signal", "raised", "bridge", "ok"}

\* There is an exchange exactly while the adapter waits, and the origin thread
\* executes exactly what it has taken; a worker ends with no exchange open, and is
\* dropped only by an origin thread that will not execute again.
ExchangeInv ==
    /\ exchange.is # "nothing" <=> adapter = "Waiting"
    /\ pump = "execute" <=> exchange.is = "taken"
    /\ Len(chunks) <= limit
    /\ adapter = "Waiting" => Len(chunks) < limit
    /\ worker = "ended" => adapter # "Waiting" /\ (Len(chunks) = limit \/ adapter = "Done")
    /\ worker = "dropped" => pump \in {"cancelling", "unwound", "left"}

\* What the origin thread knows of the call it is in, or has left.
OutcomeInv ==
    /\ outcome = "none" <=> pump \in {"loop", "execute"}
    /\ outcome = "panic" <=> pump = "unwound"
    /\ pump = "cancelling" => outcome = "signal"
    /\ outcome \in {"raised", "bridge", "ok"} =>
          pump = "left" /\ worker = "ended" /\ outcome = Verdict(error, failure)

BodyEnded == Exhausted \/ (kind = "Read" /\ at > 0 /\ body[at] = 0)

\* The adapter is done without a failure only at the end of the body.
EndInv ==
    /\ exchange.is = "end" => BodyEnded
    /\ adapter = "Done" /\ failure = "None" => BodyEnded

ChunksInv == worker # "dropped" => IsTaken(chunks \o InFlight)

\* The inductive invariant behind UploadIsWhole.
UploadInv == StreamTypeOK /\ ExchangeInv /\ OutcomeInv /\ EndInv /\ ChunksInv

\* One more chunk counts if it is not empty.
LEMMA FullCounts ==
    ASSUME NEW b \in Seq(Nat), NEW i \in Nat
    PROVE  /\ Full(b, i) \in Nat
           /\ b[i + 1] # 0 => Full(b, i + 1) = Full(b, i) + 1
           /\ b[i + 1] = 0 => Full(b, i + 1) = Full(b, i)
  <1> DEFINE Few == {j \in 1..i : b[j] # 0}
             More == {j \in 1..(i + 1) : b[j] # 0}
  <1>1. IsFiniteSet(1..i)
    BY FS_Interval
  <1>2. Few \subseteq 1..i
    OBVIOUS
  <1>3. IsFiniteSet(Few)
    BY <1>1, <1>2, FS_Subset, Zenon
  <1>4. Cardinality(Few) \in Nat
    BY <1>3, FS_CardinalityType, Zenon
  <1>5. i + 1 \notin Few
    OBVIOUS
  <1>6. CASE b[i + 1] # 0
    <2>1. More = Few \cup {i + 1}
      BY <1>6
    <2>2. Cardinality(Few \cup {i + 1}) = Cardinality(Few) + 1
      BY <1>3, <1>5, FS_AddElement, Zenon
    <2> QED
      BY <1>4, <1>6, <2>1, <2>2 DEF Full
  <1>7. CASE b[i + 1] = 0
    <2>1. More = Few
      BY <1>7
    <2> QED
      BY <1>4, <1>7, <2>1 DEF Full
  <1> QED
    BY <1>6, <1>7

\* A chunk that is not empty has a place among those of any longer prefix.
LEMMA FullGrows ==
    ASSUME NEW b \in Seq(Nat), NEW n \in Nat, NEW i \in 1..n
    PROVE  /\ Full(b, i) \in Nat /\ Full(b, n) \in Nat /\ Full(b, i) <= Full(b, n)
           /\ b[i] # 0 => Full(b, i) >= 1
  <1> DEFINE Low == {j \in 1..i : b[j] # 0}
             High == {j \in 1..n : b[j] # 0}
  <1>1. IsFiniteSet(1..n)
    BY FS_Interval
  <1>2. High \subseteq 1..n /\ Low \subseteq High
    OBVIOUS
  <1>3. IsFiniteSet(High)
    BY <1>1, <1>2, FS_Subset, Zenon
  <1>4. IsFiniteSet(Low) /\ Cardinality(Low) <= Cardinality(High)
    BY <1>2, <1>3, FS_Subset, Zenon
  <1>5. Cardinality(High) \in Nat /\ Cardinality(Low) \in Nat
    BY <1>3, <1>4, FS_CardinalityType, Zenon
  <1>6. b[i] # 0 => i \in Low
    OBVIOUS
  <1>7. b[i] # 0 => Cardinality(Low) # 0
    BY <1>4, <1>6, FS_EmptySet, Zenon
  <1> QED
    BY <1>4, <1>5, <1>7 DEF Full

\* What was in flight is appended.
LEMMA ChunkArrives ==
    ASSUME NEW s \in Seq(Nat), NEW x \in Nat
    PROVE  s \o <<x>> = Append(s, x) /\ Append(s, x) \in Seq(Nat) /\ s \o <<>> = s
  OBVIOUS

\* Nothing has been read, sent or acknowledged of an upload before its worker begins.
LEMMA StreamTypeInit == StreamInit => UploadInv
  <1> SUFFICES ASSUME StreamInit PROVE UploadInv
    OBVIOUS
  <1> USE BodiesAssumption
  <1>0. body \in Seq(Nat) /\ limit \in Nat
    BY DEF StreamInit
  <1>1. StreamTypeOK
    <2>1. at \in 0..Len(body) /\ chunks \in Seq(Nat)
      BY <1>0 DEF StreamInit
    <2>2. exchange \in [is : {"nothing", "queued", "taken", "chunk", "skip", "end", "failed",
                            "closed"}, chunk : Nat]
      BY DEF StreamInit, Nothing
    <2>3. kind \in {"Read", "Iterator", "Once"} /\ error \in BOOLEAN
      BY DEF StreamInit
    <2>4. adapter = "Idle" /\ failure = "None" /\ worker = "running" /\ pump = "loop" /\ outcome = "none"
      BY DEF StreamInit
    <2> QED
      BY <1>0, <2>1, <2>2, <2>3, <2>4 DEF StreamTypeOK
  <1>2. ExchangeInv /\ OutcomeInv /\ EndInv
    BY <1>1 DEF StreamInit, StreamTypeOK, ExchangeInv, OutcomeInv, EndInv, Nothing
  <1>3. Full(body, 0) = 0
    <2>1. {j \in 1..0 : body[j] # 0} = {}
      OBVIOUS
    <2> QED
      BY <2>1, FS_EmptySet DEF Full
  <1>4. at = 0 /\ chunks \o InFlight = <<>>
    BY DEF StreamInit, InFlight, Nothing
  <1>5. ChunksInv
    BY <1>3, <1>4 DEF ChunksInv, IsTaken
  <1> QED
    BY <1>1, <1>2, <1>5 DEF UploadInv

\* Every step of the upload, the worker's and the caller's, keeps the types.
LEMMA StreamTypeStep == StreamTypeOK /\ [StreamNext]_streamVars => StreamTypeOK'
  <1> SUFFICES ASSUME StreamTypeOK, [StreamNext]_streamVars PROVE StreamTypeOK'
    OBVIOUS
  <1> USE DEF StreamTypeOK, bodyVars, Msg, Nothing
  <1>1. CASE BeginAction
    BY <1>1 DEF BeginAction
  <1>2. CASE Observe
    <2>1. Append(chunks, exchange.chunk) \in Seq(Nat)
      OBVIOUS
    <2>2. FailureOf(exchange.is) \in {"None", "Handler", "ReplySender"}
      BY DEF FailureOf
    <2> QED
      BY <1>2, <2>1, <2>2 DEF Observe
  <1>3. CASE WorkerEnds \/ Abort
    BY <1>3 DEF WorkerEnds, Abort
  <1>4. CASE Dequeue
    BY <1>4 DEF Dequeue
  <1>5. CASE Execute
    <2>1. ~Exhausted => at + 1 \in 1..Len(body) /\ body[at + 1] \in Nat
      BY DEF Exhausted
    <2> QED
      BY <1>5, <2>1 DEF Execute, ReplyToEmpty, Exhausted
  <1>6. CASE ExecuteRaises
    BY <1>6 DEF ExecuteRaises
  <1>7. CASE Cancelled \/ Signal
    BY <1>7 DEF Cancelled, Signal
  <1>8. CASE Return
    BY <1>8 DEF Return, Verdict
  <1>9. CASE Unwind
    BY <1>9 DEF Unwind
  <1>10. CASE UNCHANGED streamVars
    BY <1>10 DEF streamVars
  <1> QED
    BY <1>1, <1>2, <1>3, <1>4, <1>5, <1>6, <1>7, <1>8, <1>9, <1>10
    DEF StreamNext, WorkerStep, PumpStep

\* The adapter, the channel and the origin thread keep step.
LEMMA ExchangeStep == UploadInv /\ [StreamNext]_streamVars => ExchangeInv'
  <1> SUFFICES ASSUME UploadInv, [StreamNext]_streamVars PROVE ExchangeInv'
    OBVIOUS
  <1> USE DEF UploadInv, StreamTypeOK, ExchangeInv, OutcomeInv, bodyVars, Msg, Nothing
  <1>1. CASE BeginAction
    BY <1>1 DEF BeginAction, WantsMore
  <1>2. CASE Observe
    <2>1. Len(Append(chunks, exchange.chunk)) = Len(chunks) + 1
      OBVIOUS
    <2>2. adapter' # "Waiting" /\ exchange'.is = "nothing" /\ pump' = pump /\ worker' = worker
      BY <1>2 DEF Observe
    <2>3. Len(chunks') \in {Len(chunks), Len(chunks) + 1} /\ Len(chunks) < limit /\ limit' = limit
      BY <1>2, <2>1 DEF Observe
    <2>4. pump # "execute" /\ worker = "running"
      BY <1>2 DEF Observe
    <2> QED
      BY <2>2, <2>3, <2>4
  <1>3. CASE WorkerEnds
    BY <1>3 DEF WorkerEnds, WantsMore
  <1>4. CASE Abort
    BY <1>4 DEF Abort
  <1>5. CASE Dequeue
    BY <1>5 DEF Dequeue
  <1>6. CASE Execute
    <2>1. adapter = "Waiting" /\ pump' = "loop" /\ exchange'.is \in {"chunk", "skip", "end"}
      BY <1>6 DEF Execute, ReplyToEmpty
    <2> QED
      BY <1>6, <2>1 DEF Execute
  <1>7. CASE ExecuteRaises
    BY <1>7 DEF ExecuteRaises
  <1>8. CASE Cancelled
    BY <1>8 DEF Cancelled
  <1>9. CASE Signal
    BY <1>9 DEF Signal
  <1>10. CASE Return
    BY <1>10 DEF Return
  <1>11. CASE Unwind
    BY <1>11 DEF Unwind
  <1>12. CASE UNCHANGED streamVars
    BY <1>12 DEF streamVars
  <1> QED
    BY <1>1, <1>2, <1>3, <1>4, <1>5, <1>6, <1>7, <1>8, <1>9, <1>10, <1>11, <1>12
    DEF StreamNext, WorkerStep, PumpStep

\* Nothing that the verdict rests on changes after it.
LEMMA OutcomeStep == UploadInv /\ [StreamNext]_streamVars => OutcomeInv'
  <1> SUFFICES ASSUME UploadInv, [StreamNext]_streamVars PROVE OutcomeInv'
    OBVIOUS
  <1> USE DEF UploadInv, StreamTypeOK, ExchangeInv, OutcomeInv
  <1>1. CASE BeginAction
    BY <1>1 DEF BeginAction
  <1>2. CASE Observe
    BY <1>2 DEF Observe
  <1>3. CASE WorkerEnds
    BY <1>3 DEF WorkerEnds
  <1>4. CASE Abort
    BY <1>4 DEF Abort
  <1>5. CASE Dequeue
    BY <1>5 DEF Dequeue
  <1>6. CASE Execute
    BY <1>6 DEF Execute
  <1>7. CASE ExecuteRaises
    BY <1>7 DEF ExecuteRaises
  <1>8. CASE Cancelled
    BY <1>8 DEF Cancelled
  <1>9. CASE Signal
    BY <1>9 DEF Signal
  <1>10. CASE Return
    BY <1>10 DEF Return, Verdict
  <1>11. CASE Unwind
    BY <1>11 DEF Unwind
  <1>12. CASE UNCHANGED streamVars
    BY <1>12 DEF streamVars
  <1> QED
    BY <1>1, <1>2, <1>3, <1>4, <1>5, <1>6, <1>7, <1>8, <1>9, <1>10, <1>11, <1>12
    DEF StreamNext, WorkerStep, PumpStep

\* The end is reported where the body ends.
LEMMA EndStep == UploadInv /\ [StreamNext]_streamVars => EndInv'
  <1> SUFFICES ASSUME UploadInv, [StreamNext]_streamVars PROVE EndInv'
    OBVIOUS
  <1> USE DEF UploadInv, StreamTypeOK, ExchangeInv, EndInv, BodyEnded, Exhausted, bodyVars, Msg, Nothing
  <1>1. CASE BeginAction
    BY <1>1 DEF BeginAction
  <1>2. CASE Observe
    BY <1>2 DEF Observe, FailureOf
  <1>3. CASE WorkerEnds \/ Abort \/ Dequeue
    BY <1>3 DEF WorkerEnds, Abort, Dequeue
  <1>4. CASE Execute
    <2>1. adapter' = "Waiting"
      BY <1>4 DEF Execute
    <2>2. CASE at = Len(body)
      BY <1>4, <2>1, <2>2 DEF Execute
    <2>3. CASE at # Len(body) /\ body[at + 1] = 0
      BY <1>4, <2>1, <2>3 DEF Execute, ReplyToEmpty
    <2>4. CASE at # Len(body) /\ body[at + 1] # 0
      BY <1>4, <2>1, <2>4 DEF Execute
    <2> QED
      BY <2>2, <2>3, <2>4
  <1>5. CASE ExecuteRaises
    BY <1>5 DEF ExecuteRaises
  <1>6. CASE Cancelled \/ Signal \/ Return
    BY <1>6 DEF Cancelled, Signal, Return
  <1>7. CASE Unwind
    BY <1>7 DEF Unwind
  <1>8. CASE UNCHANGED streamVars
    BY <1>8 DEF streamVars
  <1> QED
    BY <1>1, <1>2, <1>3, <1>4, <1>5, <1>6, <1>7, <1>8 DEF StreamNext, WorkerStep, PumpStep

\* A chunk is taken from the body into the channel, and from there to the worker.
LEMMA ChunksStep == UploadInv /\ [StreamNext]_streamVars => ChunksInv'
  <1> SUFFICES ASSUME UploadInv, [StreamNext]_streamVars, worker' # "dropped"
               PROVE  IsTaken(chunks \o InFlight)'
    BY DEF ChunksInv
  <1>0. StreamTypeOK /\ ExchangeInv /\ OutcomeInv /\ ChunksInv
    BY DEF UploadInv
  <1>1. worker # "dropped"
    BY <1>0 DEF StreamNext, WorkerStep, PumpStep, BeginAction, Observe, WorkerEnds, Abort,
                Dequeue, Execute, ExecuteRaises, Cancelled, Return, Unwind, Signal, streamVars
  <1>2. IsTaken(chunks \o InFlight)
    BY <1>0, <1>1 DEF ChunksInv
  <1>3. ASSUME chunks' \o InFlight' = chunks \o InFlight, at' = at, body' = body
        PROVE  IsTaken(chunks \o InFlight)'
    BY <1>2, <1>3 DEF IsTaken
  <1>4. CASE BeginAction
    BY <1>0, <1>3, <1>4 DEF BeginAction, InFlight, ExchangeInv, bodyVars, Msg
  <1>5. CASE Observe
    <2>1. CASE exchange.is = "chunk"
      <3>1. InFlight = <<exchange.chunk>> /\ InFlight' = <<>> /\ chunks' = Append(chunks, exchange.chunk)
        BY <1>5, <2>1 DEF Observe, InFlight, Nothing
      <3>2. exchange.chunk \in Nat /\ chunks \in Seq(Nat)
        BY <1>0 DEF StreamTypeOK
      <3>3. chunks \o <<exchange.chunk>> = Append(chunks, exchange.chunk)
        BY <3>2, ChunkArrives
      <3>4. Append(chunks, exchange.chunk) \o <<>> = Append(chunks, exchange.chunk)
        BY <3>2
      <3> QED
        BY <1>3, <1>5, <3>1, <3>3, <3>4 DEF Observe, bodyVars
    <2>2. CASE exchange.is # "chunk"
      BY <1>3, <1>5, <2>2 DEF Observe, InFlight, Nothing, bodyVars
    <2> QED
      BY <2>1, <2>2
  <1>6. CASE WorkerEnds \/ Abort \/ Cancelled \/ Signal \/ Return
    BY <1>3, <1>6 DEF WorkerEnds, Abort, Cancelled, Signal, Return, InFlight, bodyVars
  <1>7. CASE Dequeue
    BY <1>3, <1>7 DEF Dequeue, InFlight, bodyVars, Msg
  <1>8. CASE Execute
    <2>0. chunks \in Seq(Nat) /\ body \in Seq(Nat) /\ at \in 0..Len(body) /\ at \in Nat
      BY <1>0 DEF StreamTypeOK
    <2>1. InFlight = <<>> /\ chunks' = chunks /\ body' = body
      BY <1>0, <1>8 DEF Execute, InFlight, ExchangeInv, bodyVars
    <2>2. chunks \o InFlight = chunks
      BY <2>0, <2>1
    <2>3. CASE Exhausted
      BY <1>3, <1>8, <2>1, <2>3 DEF Execute, InFlight, Msg
    <2>4. CASE ~Exhausted /\ body[at + 1] = 0
      <3>1. InFlight' = <<>> /\ at' = at + 1
        BY <1>8, <2>4 DEF Execute, InFlight, Msg, ReplyToEmpty
      <3>2. Full(body, at + 1) = Full(body, at)
        BY <2>0, <2>4, FullCounts
      <3> QED
        BY <1>2, <2>0, <2>1, <2>2, <2>4, <3>1, <3>2 DEF IsTaken
    <2>5. CASE ~Exhausted /\ body[at + 1] # 0
      <3>1. at' = at + 1 /\ InFlight' = <<body[at + 1]>>
        BY <1>8, <2>5 DEF Execute, InFlight, Msg
      <3>2. body[at + 1] \in Nat
        BY <2>0, <2>5 DEF Exhausted
      <3>3. (chunks \o InFlight)' = Append(chunks, body[at + 1])
        BY <2>0, <2>1, <3>1, <3>2
      <3>4. Full(body, at) \in Nat /\ Full(body, at + 1) = Full(body, at) + 1
        BY <2>0, <2>5, FullCounts
      <3>5. Len(chunks) = Full(body, at)
        BY <1>2, <2>2 DEF IsTaken
      <3>6. ASSUME NEW i \in 1..(at + 1), body[i] # 0
            PROVE  Append(chunks, body[at + 1])[Full(body, i)] = body[i]
        <4>1. CASE i = at + 1
          BY <2>0, <3>2, <3>4, <3>5, <4>1
        <4>2. CASE i \in 1..at
          <5>1. Full(body, i) \in 1..Len(chunks)
            BY <2>0, <3>5, <3>6, <4>2, FullGrows
          <5>2. chunks[Full(body, i)] = body[i]
            BY <1>2, <2>2, <3>6, <4>2 DEF IsTaken
          <5> QED
            BY <2>0, <3>2, <5>1, <5>2
        <4>3. i = at + 1 \/ i \in 1..at
          BY <2>0
        <4> QED
          BY <4>1, <4>2, <4>3
      <3>7. Len(Append(chunks, body[at + 1])) = Full(body, at + 1)
        BY <2>0, <3>2, <3>4, <3>5
      <3> QED
        BY <2>1, <3>1, <3>3, <3>6, <3>7 DEF IsTaken
    <2> QED
      BY <2>3, <2>4, <2>5
  <1>9. CASE ExecuteRaises
    BY <1>0, <1>3, <1>9 DEF ExecuteRaises, InFlight, ExchangeInv, bodyVars, Msg
  <1>10. CASE Unwind
    BY <1>3, <1>10 DEF Unwind, InFlight, bodyVars, Msg
  <1>11. CASE UNCHANGED streamVars
    BY <1>3, <1>11 DEF streamVars, InFlight
  <1> QED
    BY <1>4, <1>5, <1>6, <1>7, <1>8, <1>9, <1>10, <1>11 DEF StreamNext, WorkerStep, PumpStep

\* In every state of an upload the adapter, the channel and the origin thread are in
\* step, and each chunk taken from the body is in one place.
THEOREM UploadInvariant == StreamSpec => []UploadInv
  <1>1. UploadInv /\ [StreamNext]_streamVars => UploadInv'
    BY StreamTypeStep, ExchangeStep, OutcomeStep, EndStep, ChunksStep DEF UploadInv
  <1> QED
    BY <1>1, StreamTypeInit, PTL DEF StreamSpec

\* Whatever the body yields, and wherever it raises, panics or is interrupted, the
\* caller of collect_adapter gets the chunks of the body in order and once, as many
\* as it asked for or the body has, or the exception the body raised.
THEOREM UploadStaysWhole == StreamSpec => []UploadIsWhole
  <1>1. UploadInv => UploadIsWhole
    <2> SUFFICES ASSUME UploadInv PROVE ChunksInOrder /\ ErrorIsKept
      BY DEF UploadIsWhole
    <2> USE DEF UploadInv, StreamTypeOK, ExchangeInv, OutcomeInv
    <2>1. ErrorIsKept
      BY DEF ErrorIsKept, Verdict
    <2>2. outcome = "ok" => worker = "ended" /\ failure = "None" /\ chunks \o InFlight = chunks
      BY DEF Verdict, InFlight
    <2>3. worker # "dropped" => IsTaken(chunks \o InFlight)
      BY DEF ChunksInv
    <2>4. outcome = "ok" => IsTaken(chunks)
      BY <2>2, <2>3
    <2>5. outcome = "ok" => Len(chunks) = limit \/ BodyEnded
      BY <2>2 DEF EndInv
    <2> QED
      BY <2>1, <2>3, <2>4, <2>5 DEF ChunksInOrder, BodyEnded
  <1> QED
    BY <1>1, UploadInvariant, PTL

\* After a signal the origin thread takes nothing more from the body and keeps no
\* other exception of it, although an action may be queued.
THEOREM UploadQuietAfterSignal == StreamSpec => QuietAfterSignal
  <1>1. UploadInv /\ [StreamNext]_streamVars =>
           [outcome = "signal" => at' = at /\ error' = error]_streamVars
    <2> SUFFICES ASSUME UploadInv, StreamNext, outcome = "signal"
                 PROVE  at' = at /\ error' = error
      BY DEF streamVars
    <2>1. pump # "execute"
      BY DEF UploadInv, OutcomeInv
    <2> QED
      BY <2>1 DEF StreamNext, WorkerStep, PumpStep, BeginAction, Observe, WorkerEnds, Abort,
                  Dequeue, Execute, ExecuteRaises, Cancelled, Return, Unwind, Signal
  <1> QED
    BY <1>1, UploadInvariant, PTL DEF StreamSpec, QuietAfterSignal
=============================================================================
