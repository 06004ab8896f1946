------------------------------ MODULE MCWaits ------------------------------
(***************************************************************************)
(* What a blocked caller waits for, with fairness, for TLC: the runtime     *)
(* behind a blocking call (BlockingRuntime), the pump of the origin thread  *)
(* with calls nested through callbacks (OriginBridge), an upload body that  *)
(* the worker reads through it (BodyStream) and the resends of digest       *)
(* authentication on an adapter with one connection (DigestAuth).  They are *)
(* checked side by side: a behaviour runs the part that part names, and the *)
(* others stay in one of their initial states.                              *)
(*                                                                         *)
(* The submissions of a process do not influence each other, so that one of *)
(* them shows what there is to see.                                         *)
(***************************************************************************)
EXTENDS BlockingRuntime, BodyStream, DigestAuth

VARIABLES
    part,
    stack, pc, ownership, saved, active, parent, remote, cancelled, asks, action, owner,
    terminal, slot, caught, result, signals, delivered, exited

bridgeVars == <<stack, pc, ownership, saved, active, parent, remote, cancelled, asks, action,
                owner, terminal, slot, caught, result, signals, delivered, exited>>
allVars == <<part, vars, bridgeVars, streamVars, digestVars>>

SmallBodies == {<<>>, <<0>>, <<1>>, <<1, 2>>, <<0, 1, 2>>, <<1, 0, 2>>, <<1, 2, 3>>, <<1, 0, 0, 2>>}

Uploads == [r \in {"upload", "query"} |-> IF r = "upload" THEN "file" ELSE "bytes"]

Asks(fresh, qop, known, complete) ==
    [status |-> "unauthorized", digest |-> TRUE, fresh |-> fresh, qop |-> qop, known |-> known,
     complete |-> complete]

Plain(status) ==
    [status |-> status, digest |-> FALSE, fresh |-> FALSE, qop |-> "none", known |-> FALSE,
     complete |-> FALSE]

\* Answers with and without a challenge, and challenges of every kind.
ServerAnswers ==
    {Plain(s) : s \in {"ok", "redirect", "unauthorized"}}
      \cup {Asks(fresh, "auth", TRUE, TRUE) : fresh \in BOOLEAN}
      \cup {Asks(FALSE, "other", TRUE, TRUE), Asks(FALSE, "none", TRUE, TRUE),
            Asks(FALSE, "auth", FALSE, TRUE), Asks(FALSE, "auth", TRUE, FALSE)}

B == INSTANCE OriginBridge WITH
        Calls <- {"c1", "c2"}, Kinds <- {"owned", "borrowed"}, MaxAsks <- 1, MaxSignals <- 1,
        DestructorsCall <- TRUE, None <- "no call",
        kind <- ownership, worker <- remote, exchange <- action

MCInit ==
    /\ part \in {"runtime", "bridge", "stream", "digest"}
    /\ Init
    /\ B!Init /\ (part # "bridge" => ownership = [c \in {"c1", "c2"} |-> "owned"])
    /\ StreamInit /\ (part # "stream" => kind = "Read" /\ body = <<>> /\ limit = 0)
    /\ DigestInit

RuntimeStep(A) == part = "runtime" /\ A /\ UNCHANGED <<part, bridgeVars, streamVars, digestVars>>
BridgeStep(A) == part = "bridge" /\ A /\ UNCHANGED <<part, vars, streamVars, digestVars>>
StreamStep(A) == part = "stream" /\ A /\ UNCHANGED <<part, vars, bridgeVars, digestVars>>
DigestStep(A) == part = "digest" /\ A /\ UNCHANGED <<part, vars, bridgeVars, streamVars>>

MCNext ==
    RuntimeStep(Next) \/ BridgeStep(B!Next) \/ StreamStep(StreamNext) \/ DigestStep(DigestNext)

\* The fairness of each part: a task that was aborted stops and a wait that can
\* end ends; the pump runs on a thread the scheduler serves; the worker and the
\* pump of an upload go on; a thread inside Session.send goes on.
MCFairness ==
    /\ \A s \in Submissions :
          /\ \A p \in Processes : WF_allVars(RuntimeStep(EndWait(p, s)))
          /\ WF_allVars(RuntimeStep(abortedBy[s] # {} /\ TaskStops(s)))
    /\ \A c \in {"c1", "c2"} : WF_allVars(BridgeStep(B!PumpStep(c)))
    /\ WF_allVars(StreamStep(WorkerStep)) /\ WF_allVars(StreamStep(PumpStep))
    /\ \A t \in Threads : WF_allVars(DigestStep(Work(t)))

MCSpec == MCInit /\ [][MCNext]_allVars /\ MCFairness

----------------------------------------------------------------------------
\* Calls nested through callbacks never wait for each other in a circle: when
\* callbacks and workers cooperate every call returns.  And a signal that finds
\* an owned call in its pump ends that call or is left to its callback, even if
\* the worker does nothing for ever.
CallsReturn == B!EveryCallReturns /\ B!InterruptReturns

\* A body is collected, fails or is given up: no chunk is waited for for ever.
UploadEnds == part = "stream" => CollectEnds
=============================================================================
