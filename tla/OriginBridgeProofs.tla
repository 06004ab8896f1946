------------------------- MODULE OriginBridgeProofs -------------------------
(***************************************************************************)
(* Proofs about OriginBridge, for any number of calls nested to any depth,  *)
(* any number of actions and signals, and destructors that call or do not.  *)
(***************************************************************************)
EXTENDS OriginBridge, TLAPS

\* What leaving the innermost call does to the stack: one call fewer, the
\* others in place.
LEMMA Popped ==
    ASSUME NEW S, NEW s \in Seq(S), s # <<>>
    PROVE  LET t == SubSeq(s, 1, Len(s) - 1)
           IN  /\ t \in Seq(S)
               /\ Len(t) = Len(s) - 1
               /\ \A i \in 1 .. Len(t) : t[i] = s[i]
  <1>1. Len(s) \in Nat /\ Len(s) >= 1
    OBVIOUS
  <1>2. s \in [1 .. Len(s) -> S]
    OBVIOUS
  <1> DEFINE t == SubSeq(s, 1, Len(s) - 1)
  <1>3. t = [i \in 1 .. Len(s) - 1 |-> s[i]]
    BY <1>1, <1>2
  <1>4. t \in Seq(S) /\ Len(t) = Len(s) - 1
    BY <1>1, <1>2, <1>3
  <1> QED
    BY <1>1, <1>3, <1>4

\* The innermost call is a call, and the last of the stack.
LEMMA TopIsLast ==
    ASSUME BridgeTypeOK, NEW c \in Calls, Top = c
    PROVE  stack # <<>> /\ Len(stack) \in Nat \ {0} /\ c = stack[Len(stack)]
  BY NoneAssumption DEF BridgeTypeOK, Top

\* Leaving a call keeps the types of what it changes.
LEMMA LeaveType ==
    ASSUME BridgeTypeOK, NEW c \in Calls, Top = c,
           NEW how \in Verdicts,
           NEW objects \in {"returned", "quarantined", "dropped"},
           Leave(c, how, objects)
    PROVE  /\ stack' \in Seq(Calls)
           /\ pc' \in [Calls -> {"idle", "enter", "finalizing", "check", "poll", "receive",
                                 "exec", "cancelling", "left"}]
           /\ active' \in Calls \cup {None}
           /\ result' \in [Calls -> Verdicts \cup {"panicked"}]
           /\ owner' \in [Calls -> {"none", "held", "returned", "quarantined", "dropped",
                                    "forgotten"}]
           /\ caught' \in [Calls -> Verdicts]
  <1>1. stack # <<>> /\ stack \in Seq(Calls)
    BY TopIsLast DEF BridgeTypeOK
  <1>2. stack' \in Seq(Calls)
    BY <1>1, Popped DEF Leave
  <1>3. caught' \in [Calls -> Verdicts]
    BY DEF Leave, BridgeTypeOK
  <1> QED
    BY <1>2, <1>3 DEF Leave, BridgeTypeOK, Verdicts

\* Every variable keeps its type.
THEOREM BridgeTypeInvariant == Spec => []BridgeTypeOK
<1>1. Init => BridgeTypeOK
  <2> SUFFICES ASSUME Init PROVE BridgeTypeOK
    OBVIOUS
  <2>1. exited \in BOOLEAN
    BY Zenon DEF Init
  <2>2. stack \in Seq(Calls)
    BY DEF Init
  <2> QED
    BY <2>1, <2>2 DEF Init, BridgeTypeOK, Ended, Verdicts
<1>2. BridgeTypeOK /\ [Next]_vars => BridgeTypeOK'
  <2> SUFFICES ASSUME BridgeTypeOK, [Next]_vars
               PROVE  BridgeTypeOK'
    OBVIOUS
  <2> USE BoundsAssumption
  <2>1. ASSUME NEW c \in Calls, Enter(c) PROVE BridgeTypeOK'
    BY <2>1 DEF Enter, BridgeTypeOK, errorVars, Ended, Verdicts
  <2>2. ASSUME NEW c \in Calls, EnterFromDestructor(c) PROVE BridgeTypeOK'
    BY <2>2 DEF EnterFromDestructor, BridgeTypeOK, errorVars, Ended, Verdicts
  <2>3. ASSUME NEW c \in Calls, Reap(c) PROVE BridgeTypeOK'
    BY <2>3 DEF Reap, BridgeTypeOK, taskVars, errorVars, Ended, Verdicts
  <2>4. ASSUME NEW c \in Calls, Finalized(c) \/ NoSignal(c) \/ NotReady(c) \/ Wake(c)
        PROVE  BridgeTypeOK'
    <3>1. CASE Finalized(c)
      BY <3>1 DEF Finalized, BridgeTypeOK, taskVars, errorVars, Ended, Verdicts
    <3>2. CASE NoSignal(c)
      BY <3>2 DEF NoSignal, BridgeTypeOK, taskVars, errorVars, Ended, Verdicts
    <3>3. CASE NotReady(c)
      BY <3>3 DEF NotReady, BridgeTypeOK, taskVars, errorVars, Ended, Verdicts
    <3>4. CASE Wake(c)
      BY <3>4 DEF Wake, BridgeTypeOK, taskVars, errorVars, Ended, Verdicts
    <3> QED
      BY <2>4, <3>1, <3>2, <3>3, <3>4
  <2>5. ASSUME NEW c \in Calls, SignalRaised(c) PROVE BridgeTypeOK'
    BY <2>5 DEF SignalRaised, BridgeTypeOK, taskVars, errorVars, Ended, Verdicts
  <2>6. ASSUME NEW c \in Calls, Completed(c) PROVE BridgeTypeOK'
    <3>1. Outcome(c) \in Verdicts
      BY DEF Outcome, BridgeTypeOK, Verdicts
    <3> QED
      BY <2>6, <3>1, LeaveType DEF Completed, At, BridgeTypeOK, taskVars, Ended, Verdicts
  <2>7. ASSUME NEW c \in Calls, WorkerStopped(c) PROVE BridgeTypeOK'
    BY <2>7, LeaveType DEF WorkerStopped, At, BridgeTypeOK, taskVars, Ended, Verdicts
  <2>8. ASSUME NEW c \in Calls, Receive(c) PROVE BridgeTypeOK'
    BY <2>8 DEF Receive, BridgeTypeOK, taskVars, Ended, Verdicts
  <2>9. ASSUME NEW c \in Calls, CallbackReturns(c) \/ CallbackRaises(c) PROVE BridgeTypeOK'
    <3>1. CASE CallbackReturns(c)
      BY <3>1 DEF CallbackReturns, BridgeTypeOK, taskVars, errorVars, Ended, Verdicts
    <3>2. CASE CallbackRaises(c)
      <4>1. slot' \in [Calls -> Verdicts]
        BY <3>2 DEF CallbackRaises, BridgeTypeOK, Verdicts
      <4> QED
        BY <3>2, <4>1 DEF CallbackRaises, BridgeTypeOK, taskVars
    <3> QED
      BY <2>9, <3>1, <3>2
  <2>10. ASSUME NEW c \in Calls, CallbackInterrupted(c) PROVE BridgeTypeOK'
    <3>1. signals' \in Nat
      BY <2>10 DEF CallbackInterrupted, BridgeTypeOK
    <3>2. caught' \in [Calls -> Verdicts]
      BY <2>10 DEF CallbackInterrupted, BridgeTypeOK, Verdicts
    <3> QED
      BY <2>10, <3>1, <3>2 DEF CallbackInterrupted, BridgeTypeOK, taskVars
  <2>11. ASSUME NEW c \in Calls, CancelObserved(c) PROVE BridgeTypeOK'
    <3>1. Leave(c, "signal", IF kind[c] = "owned" THEN "quarantined" ELSE "returned")
      BY <2>11 DEF CancelObserved
    <3>2. terminal' \subseteq Calls
      BY <2>11 DEF CancelObserved, BridgeTypeOK
    <3> QED
      BY <2>11, <3>1, <3>2, LeaveType
      DEF CancelObserved, At, BridgeTypeOK, taskVars, Ended, Verdicts
  <2>12. ASSUME NEW c \in Calls, CancelTimesOut(c) PROVE BridgeTypeOK'
    BY <2>12, LeaveType DEF CancelTimesOut, At, BridgeTypeOK, taskVars, Ended, Verdicts
  <2>13. ASSUME NEW c \in Calls, TakeOwner(c) PROVE BridgeTypeOK'
    BY <2>13 DEF TakeOwner, BridgeTypeOK, originVars, taskVars, errorVars, Ended, Verdicts
  <2>14. ASSUME NEW c \in Calls, WorkerStep(c) PROVE BridgeTypeOK'
    <3>1. CASE Ask(c)
      BY <3>1 DEF Ask, BridgeTypeOK, originVars, errorVars, Ended
    <3>2. CASE Answered(c)
      BY <3>2 DEF Answered, BridgeTypeOK, originVars, errorVars, Ended
    <3>3. CASE Finish(c)
      BY <3>3 DEF Finish, BridgeTypeOK, originVars, errorVars, Ended
    <3>4. CASE Aborted(c)
      BY <3>4 DEF Aborted, BridgeTypeOK, originVars, errorVars, Ended
    <3> QED
      BY <2>14, <3>1, <3>2, <3>3, <3>4 DEF WorkerStep
  <2>15. ASSUME NEW c \in Calls, WaiterNotifies(c) PROVE BridgeTypeOK'
    BY <2>15 DEF WaiterNotifies, BridgeTypeOK, originVars, taskVars, errorVars, Ended, Verdicts
  <2>16. CASE Signal
    BY <2>16 DEF Signal, BridgeTypeOK, originVars, taskVars, errorVars, Ended, Verdicts
  <2>17. CASE ThreadExits
    <3>1. exited' \in BOOLEAN
      BY <2>17, Zenon DEF ThreadExits
    <3> QED
      BY <2>17, <3>1 DEF ThreadExits, BridgeTypeOK, originVars, taskVars, errorVars, Ended, Verdicts
  <2>18. CASE Gone \/ UNCHANGED vars
    BY <2>18 DEF Gone, vars, BridgeTypeOK, originVars, taskVars, errorVars, Ended, Verdicts
  <2> QED
    BY <2>1, <2>2, <2>3, <2>4, <2>5, <2>6, <2>7, <2>8, <2>9, <2>10, <2>11, <2>12, <2>13,
       <2>14, <2>15, <2>16, <2>17, <2>18 DEF Next, PumpStep, CallbackStep
<1> QED
  BY <1>1, <1>2, PTL DEF Spec

----------------------------------------------------------------------------
(* The owners.                                                              *)

\* A waiter that has notified, or a wait that has observed the end, tells the
\* truth: what makes an entry of the quarantine safe to reap.
TerminalIsEnded == \A c \in Calls : c \in terminal => worker[c] \in Ended

\* A call that was not made has no worker.
IdleIsFresh == \A c \in Calls : pc[c] = "idle" => worker[c] = "none"

OwnerInv == TerminalIsEnded /\ IdleIsFresh /\ OwnerOutlivesWorker

\* No Python object is given back or dropped while its worker may still run,
\* on any path of the pump, of a nested pump, or of the thread's teardown.
THEOREM OwnerSafety == Spec => []OwnerOutlivesWorker
<1>1. Init => OwnerInv
  BY DEF Init, OwnerInv, TerminalIsEnded, IdleIsFresh, OwnerOutlivesWorker
<1>2. BridgeTypeOK /\ OwnerInv /\ [Next]_vars => OwnerInv'
  <2> SUFFICES ASSUME BridgeTypeOK, OwnerInv, [Next]_vars
               PROVE  OwnerInv'
    OBVIOUS
  <2> USE DEF OwnerInv, TerminalIsEnded, IdleIsFresh, OwnerOutlivesWorker, Ended
  <2>1. ASSUME NEW c \in Calls, Enter(c)
        PROVE  OwnerInv'
    BY <2>1
    DEF Enter, BridgeTypeOK, originVars, taskVars, errorVars
  <2>2. ASSUME NEW c \in Calls, EnterFromDestructor(c)
        PROVE  OwnerInv'
    BY <2>2
    DEF EnterFromDestructor, BridgeTypeOK, originVars, taskVars, errorVars
  <2>3. ASSUME NEW c \in Calls, Reap(c)
        PROVE  OwnerInv'
    BY <2>3
    DEF Reap, CanReap, BridgeTypeOK, originVars, taskVars, errorVars
  <2>4. ASSUME NEW c \in Calls, Finalized(c) \/ SignalRaised(c) \/ NoSignal(c) \/ NotReady(c)
        PROVE  OwnerInv'
    BY <2>4
    DEF Finalized, SignalRaised, NoSignal, NotReady, BridgeTypeOK, originVars, taskVars, errorVars
  <2>5. ASSUME NEW c \in Calls, Receive(c) \/ Wake(c) \/ CallbackReturns(c) \/ CallbackRaises(c) \/ CallbackInterrupted(c)
        PROVE  OwnerInv'
    BY <2>5
    DEF Receive, Wake, CallbackReturns, CallbackRaises, CallbackInterrupted, BridgeTypeOK, originVars, taskVars, errorVars
  <2>6. ASSUME NEW c \in Calls, Completed(c)
        PROVE  OwnerInv'
    BY <2>6
    DEF Completed, Leave, BridgeTypeOK, originVars, taskVars, errorVars
  <2>7. ASSUME NEW c \in Calls, WorkerStopped(c)
        PROVE  OwnerInv'
    BY <2>7
    DEF WorkerStopped, Leave, BridgeTypeOK, originVars, taskVars, errorVars
  <2>8. ASSUME NEW c \in Calls, CancelObserved(c)
        PROVE  OwnerInv'
    BY <2>8
    DEF CancelObserved, Leave, BridgeTypeOK, originVars, taskVars, errorVars
  <2>9. ASSUME NEW c \in Calls, CancelTimesOut(c)
        PROVE  OwnerInv'
    BY <2>9
    DEF CancelTimesOut, Leave, BridgeTypeOK, originVars, taskVars, errorVars
  <2>10. ASSUME NEW c \in Calls, TakeOwner(c)
        PROVE  OwnerInv'
    BY <2>10
    DEF TakeOwner, CanReap, BridgeTypeOK, originVars, taskVars, errorVars
  <2>11. ASSUME NEW c \in Calls, Ask(c)
        PROVE  OwnerInv'
    BY <2>11
    DEF Ask, BridgeTypeOK, originVars, taskVars, errorVars
  <2>12. ASSUME NEW c \in Calls, Answered(c)
        PROVE  OwnerInv'
    BY <2>12
    DEF Answered, BridgeTypeOK, originVars, taskVars, errorVars
  <2>13. ASSUME NEW c \in Calls, Finish(c)
        PROVE  OwnerInv'
    BY <2>13
    DEF Finish, BridgeTypeOK, originVars, taskVars, errorVars
  <2>14. ASSUME NEW c \in Calls, Aborted(c)
        PROVE  OwnerInv'
    BY <2>14
    DEF Aborted, BridgeTypeOK, originVars, taskVars, errorVars
  <2>15. ASSUME NEW c \in Calls, WaiterNotifies(c)
        PROVE  OwnerInv'
    BY <2>15
    DEF WaiterNotifies, BridgeTypeOK, originVars, taskVars, errorVars
  <2>16. CASE Signal
    BY <2>16 DEF Signal, BridgeTypeOK, originVars, taskVars, errorVars
  <2>17. CASE ThreadExits
    BY <2>17 DEF ThreadExits, BridgeTypeOK, originVars, taskVars, errorVars
  <2>18. CASE Gone \/ UNCHANGED vars
    BY <2>18 DEF Gone, vars, originVars, taskVars, errorVars
  <2> QED
    BY <2>1, <2>2, <2>3, <2>4, <2>5, <2>6, <2>7, <2>8, <2>9, <2>10, <2>11, <2>12, <2>13, <2>14, <2>15, <2>16, <2>17, <2>18
    DEF Next, PumpStep, CallbackStep, WorkerStep
<1>3. OwnerInv => OwnerOutlivesWorker
  BY DEF OwnerInv
<1> QED
  BY <1>1, <1>2, <1>3, BridgeTypeInvariant, PTL DEF Spec

----------------------------------------------------------------------------
(* The exceptions.                                                          *)

\* A refusal in flight, and a worker that failed on one, have their exception
\* in the slot of the call; no anonymous failure is passed on.
RefusalIsStored ==
    \A c \in Calls :
        /\ exchange[c] = "refused" \/ worker[c] = "failed" => slot[c] # "none"
        /\ slot[c] # "anonymous" /\ caught[c] # "anonymous"

ErrorInv == RefusalIsStored /\ NoAnonymousFailure

\* The exception a callback raised is never lost between the callback, the
\* reply, the worker's failure and the caller of the pump.
THEOREM ExceptionsSurface == Spec => []NoAnonymousFailure
<1>1. Init => ErrorInv
  BY DEF Init, ErrorInv, RefusalIsStored, NoAnonymousFailure
<1>2. BridgeTypeOK /\ ErrorInv /\ [Next]_vars => ErrorInv'
  <2> SUFFICES ASSUME BridgeTypeOK, ErrorInv, [Next]_vars
               PROVE  ErrorInv'
    OBVIOUS
  <2> USE DEF ErrorInv, RefusalIsStored, NoAnonymousFailure
  <2>1. ASSUME NEW c \in Calls, Enter(c)
        PROVE  ErrorInv'
    BY <2>1
    DEF Enter, BridgeTypeOK, originVars, taskVars, errorVars
  <2>2. ASSUME NEW c \in Calls, EnterFromDestructor(c)
        PROVE  ErrorInv'
    BY <2>2
    DEF EnterFromDestructor, BridgeTypeOK, originVars, taskVars, errorVars
  <2>3. ASSUME NEW c \in Calls, Reap(c)
        PROVE  ErrorInv'
    BY <2>3
    DEF Reap, CanReap, BridgeTypeOK, originVars, taskVars, errorVars
  <2>4. ASSUME NEW c \in Calls, Finalized(c) \/ SignalRaised(c) \/ NoSignal(c) \/ NotReady(c)
        PROVE  ErrorInv'
    BY <2>4
    DEF Finalized, SignalRaised, NoSignal, NotReady, BridgeTypeOK, originVars, taskVars, errorVars
  <2>5. ASSUME NEW c \in Calls, Receive(c) \/ Wake(c) \/ CallbackReturns(c) \/ CallbackRaises(c) \/ CallbackInterrupted(c)
        PROVE  ErrorInv'
    BY <2>5
    DEF Receive, Wake, CallbackReturns, CallbackRaises, CallbackInterrupted, BridgeTypeOK, originVars, taskVars, errorVars
  <2>6. ASSUME NEW c \in Calls, Completed(c)
        PROVE  ErrorInv'
    BY <2>6
    DEF Completed, Leave, Outcome, BridgeTypeOK, originVars, taskVars, errorVars
  <2>7. ASSUME NEW c \in Calls, WorkerStopped(c)
        PROVE  ErrorInv'
    BY <2>7
    DEF WorkerStopped, Leave, BridgeTypeOK, originVars, taskVars, errorVars
  <2>8. ASSUME NEW c \in Calls, CancelObserved(c)
        PROVE  ErrorInv'
    BY <2>8
    DEF CancelObserved, Leave, BridgeTypeOK, originVars, taskVars, errorVars
  <2>9. ASSUME NEW c \in Calls, CancelTimesOut(c)
        PROVE  ErrorInv'
    BY <2>9
    DEF CancelTimesOut, Leave, BridgeTypeOK, originVars, taskVars, errorVars
  <2>10. ASSUME NEW c \in Calls, TakeOwner(c)
        PROVE  ErrorInv'
    BY <2>10
    DEF TakeOwner, CanReap, BridgeTypeOK, originVars, taskVars, errorVars
  <2>11. ASSUME NEW c \in Calls, Ask(c)
        PROVE  ErrorInv'
    BY <2>11
    DEF Ask, BridgeTypeOK, originVars, taskVars, errorVars
  <2>12. ASSUME NEW c \in Calls, Answered(c)
        PROVE  ErrorInv'
    BY <2>12
    DEF Answered, BridgeTypeOK, originVars, taskVars, errorVars
  <2>13. ASSUME NEW c \in Calls, Finish(c)
        PROVE  ErrorInv'
    BY <2>13
    DEF Finish, BridgeTypeOK, originVars, taskVars, errorVars
  <2>14. ASSUME NEW c \in Calls, Aborted(c)
        PROVE  ErrorInv'
    BY <2>14
    DEF Aborted, BridgeTypeOK, originVars, taskVars, errorVars
  <2>15. ASSUME NEW c \in Calls, WaiterNotifies(c)
        PROVE  ErrorInv'
    BY <2>15
    DEF WaiterNotifies, BridgeTypeOK, originVars, taskVars, errorVars
  <2>16. CASE Signal
    BY <2>16 DEF Signal, BridgeTypeOK, originVars, taskVars, errorVars
  <2>17. CASE ThreadExits
    BY <2>17 DEF ThreadExits, BridgeTypeOK, originVars, taskVars, errorVars
  <2>18. CASE Gone \/ UNCHANGED vars
    BY <2>18 DEF Gone, vars, originVars, taskVars, errorVars
  <2> QED
    BY <2>1, <2>2, <2>3, <2>4, <2>5, <2>6, <2>7, <2>8, <2>9, <2>10, <2>11, <2>12, <2>13, <2>14, <2>15, <2>16, <2>17, <2>18
    DEF Next, PumpStep, CallbackStep, WorkerStep
<1>3. ErrorInv => NoAnonymousFailure
  BY DEF ErrorInv
<1> QED
  BY <1>1, <1>2, <1>3, BridgeTypeInvariant, PTL DEF Spec

----------------------------------------------------------------------------
(* The nesting.                                                             *)

\* The calls on the stack are in progress, distinct, and the guard of each
\* saved what its submission recorded as the parent.
FramesAreCalls ==
    /\ \A i \in 1 .. Len(stack) : /\ pc[stack[i]] \notin {"idle", "left"}
                                 /\ saved[stack[i]] = parent[stack[i]]
    /\ \A i, j \in 1 .. Len(stack) : stack[i] = stack[j] => i = j

NestInv == FramesAreCalls /\ NestingIsRecorded

\* Leaving the innermost call leaves the enclosing ones as they were.
LEMMA LeaveNested ==
    ASSUME BridgeTypeOK, NestInv, NEW c \in Calls, Top = c, NEW how, NEW objects,
           Leave(c, how, objects), UNCHANGED <<saved, parent>>
    PROVE  NestInv'
  <1> DEFINE n == Len(stack)
  <1>1. stack # <<>> /\ n \in Nat \ {0} /\ c = stack[n] /\ stack \in Seq(Calls)
    BY TopIsLast DEF BridgeTypeOK
  <1>2. /\ Len(stack') = n - 1
        /\ \A i \in 1 .. Len(stack') : stack'[i] = stack[i] /\ i \in 1 .. n /\ i # n
    BY <1>1, Popped DEF Leave
  <1>3. \A i \in 1 .. n : stack[i] \in Calls
    BY <1>1
  <1>4. \A i \in 1 .. Len(stack') : stack[i] # c /\ pc'[stack[i]] = pc[stack[i]]
    <2>1. \A i \in 1 .. Len(stack') : stack[i] # c
      BY <1>1, <1>2 DEF NestInv, FramesAreCalls
    <2>2. \A d \in Calls : d # c => pc'[d] = pc[d]
      BY DEF Leave, BridgeTypeOK
    <2> QED
      BY <1>2, <1>3, <2>1, <2>2
  <1>5. FramesAreCalls'
    <2>1. \A i \in 1 .. Len(stack') : /\ pc'[stack'[i]] \notin {"idle", "left"}
                                      /\ saved'[stack'[i]] = parent'[stack'[i]]
      BY <1>2, <1>4 DEF NestInv, FramesAreCalls
    <2>2. \A i, j \in 1 .. Len(stack') : stack'[i] = stack'[j] => i = j
      BY <1>2 DEF NestInv, FramesAreCalls
    <2> QED
      BY <2>1, <2>2 DEF FramesAreCalls
  <1>6. active' = IF n = 1 THEN None ELSE stack[n - 1]
    <2>1. n \in 1 .. Len(stack)
      BY <1>1
    <2>2. active' = parent[stack[n]]
      BY <1>1, <2>1 DEF Leave, NestInv, FramesAreCalls
    <2> QED
      BY <2>1, <2>2 DEF NestInv, NestingIsRecorded
  <1>7. active' = Top'
    <2>1. CASE n = 1
      <3>1. stack' = <<>>
        BY <1>1, <2>1 DEF Leave
      <3> QED
        BY <1>6, <2>1, <3>1 DEF Top
    <2>2. CASE n # 1
      <3>1. stack' # <<>> /\ stack'[n - 1] = stack[n - 1]
        BY <1>1, <1>2, <2>2
      <3> QED
        BY <1>2, <1>6, <2>2, <3>1 DEF Top
    <2> QED
      BY <2>1, <2>2
  <1>8. \A i \in 1 .. Len(stack') : i # 1 => i - 1 \in 1 .. Len(stack')
    BY <1>1, <1>2
  <1>9. NestingIsRecorded'
    BY <1>1, <1>2, <1>7, <1>8 DEF NestInv, NestingIsRecorded
  <1> QED
    BY <1>5, <1>9 DEF NestInv

\* A step that only moves pumps of calls in progress keeps the nesting.
LEMMA NestKept ==
    ASSUME BridgeTypeOK, NestInv, UNCHANGED <<stack, saved, parent, active>>,
           \A d \in Calls : pc[d] \notin {"idle", "left"} => pc'[d] \notin {"idle", "left"}
    PROVE  NestInv'
  <1>1. \A i \in 1 .. Len(stack) : stack[i] \in Calls
    BY DEF BridgeTypeOK
  <1> QED
    BY <1>1 DEF NestInv, FramesAreCalls, NestingIsRecorded, Top

\* However calls nest and however they end, the thread's active submission is
\* the innermost call and every parent recorded is the true one.
THEOREM NestingSafety == Spec => []NestingIsRecorded
<1>1. Init => NestInv
  BY DEF Init, NestInv, FramesAreCalls, NestingIsRecorded, Top
<1>2. BridgeTypeOK /\ NestInv /\ [Next]_vars => NestInv'
  <2> SUFFICES ASSUME BridgeTypeOK, NestInv, [Next]_vars
               PROVE  NestInv'
    OBVIOUS
  <2>1. ASSUME NEW c \in Calls, Enter(c)
        PROVE  NestInv'
    <3> DEFINE n == Len(stack)
    <3>1. /\ stack \in Seq(Calls) /\ n \in Nat
          /\ stack' = Append(stack, c) /\ Len(stack') = n + 1
          /\ stack'[n + 1] = c
          /\ \A i \in 1 .. n : stack'[i] = stack[i] /\ stack[i] \in Calls
      BY <2>1 DEF Enter, BridgeTypeOK
    <3>2. \A i \in 1 .. n : stack[i] # c
      BY <2>1 DEF Enter, NestInv, FramesAreCalls
    <3>3. \A i \in 1 .. n : /\ pc'[stack[i]] = pc[stack[i]]
                           /\ saved'[stack[i]] = saved[stack[i]]
                           /\ parent'[stack[i]] = parent[stack[i]]
      BY <2>1, <3>1, <3>2 DEF Enter, BridgeTypeOK
    <3>4. pc'[c] = "enter" /\ saved'[c] = active /\ parent'[c] = active /\ active' = c
      BY <2>1 DEF Enter, BridgeTypeOK
    <3>5. FramesAreCalls'
      BY <3>1, <3>2, <3>3, <3>4 DEF NestInv, FramesAreCalls
    <3>6. active = IF n = 0 THEN None ELSE stack[n]
      BY <3>1 DEF NestInv, NestingIsRecorded, Top
    <3>7. active' = Top'
      BY <3>1, <3>4 DEF Top
    <3>8. \A i \in 1 .. n + 1 : parent'[stack'[i]] = IF i = 1 THEN None ELSE stack'[i - 1]
      <4>1. CASE n = 0
        BY <3>1, <3>4, <3>6, <4>1
      <4>2. CASE n # 0
        <5>1. parent'[stack'[n + 1]] = stack'[n] /\ n + 1 # 1 /\ (n + 1) - 1 = n
          BY <3>1, <3>4, <3>6, <4>2
        <5>2. \A i \in 1 .. n : i # 1 => i - 1 \in 1 .. n
          BY <3>1
        <5>3. \A i \in 1 .. n : parent'[stack'[i]] = IF i = 1 THEN None ELSE stack'[i - 1]
          BY <3>1, <3>3, <5>2 DEF NestInv, NestingIsRecorded
        <5>4. \A i \in 1 .. n + 1 : i \in 1 .. n \/ i = n + 1
          BY <3>1
        <5> QED
          BY <5>1, <5>3, <5>4
      <4> QED
        BY <4>1, <4>2
    <3> QED
      BY <3>1, <3>5, <3>7, <3>8 DEF NestInv, NestingIsRecorded
  <2>2. ASSUME NEW c \in Calls, EnterFromDestructor(c)
        PROVE  NestInv'
    <3>1. UNCHANGED <<stack, active>>
      BY <2>2 DEF EnterFromDestructor
    <3>2. \A i \in 1 .. Len(stack) : stack[i] \in Calls /\ stack[i] # c
      BY <2>2 DEF EnterFromDestructor, NestInv, FramesAreCalls, BridgeTypeOK
    <3>3. \A i \in 1 .. Len(stack) : /\ pc'[stack[i]] = pc[stack[i]]
                                    /\ saved'[stack[i]] = saved[stack[i]]
                                    /\ parent'[stack[i]] = parent[stack[i]]
      BY <2>2, <3>2 DEF EnterFromDestructor, BridgeTypeOK
    <3> QED
      BY <3>1, <3>3 DEF NestInv, FramesAreCalls, NestingIsRecorded, Top
  <2>3. ASSUME NEW c \in Calls, Reap(c)
        PROVE  NestInv'
    <3>1. UNCHANGED <<stack, saved, parent, active>>
      BY <2>3 DEF Reap, originVars
    <3>2. \A d \in Calls : pc[d] \notin {"idle", "left"} => pc'[d] \notin {"idle", "left"}
      BY <2>3 DEF Reap, originVars, BridgeTypeOK
    <3> QED
      BY <3>1, <3>2, NestKept
  <2>4. ASSUME NEW c \in Calls, Finalized(c) \/ SignalRaised(c) \/ NoSignal(c) \/ NotReady(c)
        PROVE  NestInv'
    <3>1. UNCHANGED <<stack, saved, parent, active>>
      BY <2>4 DEF Finalized, SignalRaised, NoSignal, NotReady, originVars
    <3>2. \A d \in Calls : pc[d] \notin {"idle", "left"} => pc'[d] \notin {"idle", "left"}
      BY <2>4 DEF Finalized, SignalRaised, NoSignal, NotReady, originVars, BridgeTypeOK
    <3> QED
      BY <3>1, <3>2, NestKept
  <2>5. ASSUME NEW c \in Calls, Receive(c) \/ Wake(c) \/ CallbackReturns(c) \/ CallbackRaises(c) \/ CallbackInterrupted(c)
        PROVE  NestInv'
    <3>1. UNCHANGED <<stack, saved, parent, active>>
      BY <2>5 DEF Receive, Wake, CallbackReturns, CallbackRaises, CallbackInterrupted, originVars
    <3>2. \A d \in Calls : pc[d] \notin {"idle", "left"} => pc'[d] \notin {"idle", "left"}
      BY <2>5 DEF Receive, Wake, CallbackReturns, CallbackRaises, CallbackInterrupted, originVars, BridgeTypeOK
    <3> QED
      BY <3>1, <3>2, NestKept
  <2>6. ASSUME NEW c \in Calls, TakeOwner(c) \/ WaiterNotifies(c)
        PROVE  NestInv'
    <3>1. UNCHANGED <<stack, saved, parent, active>>
      BY <2>6 DEF TakeOwner, WaiterNotifies, originVars
    <3>2. \A d \in Calls : pc[d] \notin {"idle", "left"} => pc'[d] \notin {"idle", "left"}
      BY <2>6 DEF TakeOwner, WaiterNotifies, originVars, BridgeTypeOK
    <3> QED
      BY <3>1, <3>2, NestKept
  <2>7. ASSUME NEW c \in Calls, Ask(c) \/ Answered(c) \/ Finish(c) \/ Aborted(c)
        PROVE  NestInv'
    <3>1. UNCHANGED <<stack, saved, parent, active>>
      BY <2>7 DEF Ask, Answered, Finish, Aborted, originVars
    <3>2. \A d \in Calls : pc[d] \notin {"idle", "left"} => pc'[d] \notin {"idle", "left"}
      BY <2>7 DEF Ask, Answered, Finish, Aborted, originVars, BridgeTypeOK
    <3> QED
      BY <3>1, <3>2, NestKept
  <2>8. ASSUME NEW c \in Calls, Completed(c)
        PROVE  NestInv'
    BY <2>8, LeaveNested DEF Completed, At, taskVars
  <2>9. ASSUME NEW c \in Calls, WorkerStopped(c)
        PROVE  NestInv'
    BY <2>9, LeaveNested DEF WorkerStopped, At, taskVars
  <2>10. ASSUME NEW c \in Calls, CancelObserved(c)
        PROVE  NestInv'
    BY <2>10, LeaveNested DEF CancelObserved, At, taskVars
  <2>11. ASSUME NEW c \in Calls, CancelTimesOut(c)
        PROVE  NestInv'
    BY <2>11, LeaveNested DEF CancelTimesOut, At, taskVars
  <2>12. CASE Signal \/ ThreadExits \/ Gone \/ UNCHANGED vars
    <3>1. UNCHANGED <<stack, saved, parent, active, pc>>
      BY <2>12 DEF Signal, ThreadExits, Gone, vars, originVars
    <3> QED
      BY <3>1 DEF NestInv, FramesAreCalls, NestingIsRecorded, Top
  <2> QED
    BY <2>1, <2>2, <2>3, <2>4, <2>5, <2>6, <2>7, <2>8, <2>9, <2>10, <2>11, <2>12
    DEF Next, PumpStep, CallbackStep, WorkerStep
<1>3. NestInv => NestingIsRecorded
  BY DEF NestInv
<1> QED
  BY <1>1, <1>2, <1>3, BridgeTypeInvariant, PTL DEF Spec

\* Objects outlive the workers that use them and nesting is recorded, for every
\* number of calls, callbacks and signals.
THEOREM NestingIsSafeAlways == Spec => []NestingIsSafe
  BY OwnerSafety, NestingSafety, PTL DEF NestingIsSafe
============================================================================
